---- MODULE Spec2Model ----
(***************************************************************************)
(* A model of the qpcr ingestion pipeline: format detection                *)
(* (excel_parser.py), the vendor scanners (excel_parser.py), the           *)
(* converters (data_converter.py) and the canonical data model with its    *)
(* queries (data_model.py).                                                *)
(*                                                                         *)
(* Floating point numbers are modelled as integers.  A spreadsheet cell or *)
(* a table value is a record: NaN (missing), Num(n) or Str(s).  Text is    *)
(* modelled as a string, except sheet names, which are sequences of        *)
(* characters so that substring search can be computed.                    *)
(***************************************************************************)
EXTENDS Integers, Sequences, FiniteSets, TLC

VARIABLES
    file,          \* the file handed to detect_vendor
    sheet_names,   \* the sheet-name list detect_vendor obtained from the workbook
    detected,      \* "pending", a vendor tag, or "raised" (an exception left detect_vendor)
    vendor_type,   \* the vendor tag convert() is called with
    grid,          \* the worksheet handed to a scanner
    parsed_data,   \* the scanner's output: amplification_data, raw_data, well_data
    model,         \* PCRDataModel.wells: well name -> WellData
    pc,            \* position of the pipeline: [at, i], i the next group of convert()
    query,         \* arguments of the last query
    rows,          \* rows returned by the last query
    ui             \* the state of PCRAnalyzerApp and of its plate selector

vars == <<file, sheet_names, detected, vendor_type, grid, parsed_data, model, pc, query, rows, ui>>

\* PCRAnalyzerApp.__init__ (pcr_analyzer.py, lines 288-296) and
\* PlateSelector.__init__: no file, no data, nothing selected.  File ids are
\* positive; 0 stands for None.
NoUi ==
    [ current_file |-> 0, parsed_data |-> 0, data_model |-> 0, well_data_map |-> <<>>,
      selected_wells |-> <<>>, plate_well_data |-> <<>>, selected_projects |-> {},
      calls |-> [detect |-> 0, scan |-> 0, convert |-> 0] ]

(***************************************************************************)
(* Generic helpers                                                         *)
(***************************************************************************)
Range(s) == {s[i] : i \in 1..Len(s)}

SeqsUpTo(S, n) == UNION {[1..k -> S] : k \in 0..n}

Min(a, b) == IF a < b THEN a ELSE b

NaN == [t |-> "nan"]
Num(n) == [t |-> "num", n |-> n]
Str(s) == [t |-> "str", s |-> s]

\* pd.notna / pd.isna on a scalar
NotNa(v) == v # NaN

(***************************************************************************)
(* The canonical data model: data_model.py                                 *)
(***************************************************************************)
\* Python compares and sorts strings by code point.  NameOrder lists every
\* channel token of the model in that order, WellOrder every well name.
NameOrder ==
    << "Amplification", "CY5", "Channel", "Cycle", "FAM", "HEX", "ROX",
       "RawValue", "Unknown", "VIC", "Value", "Well" >>
WellOrder == << "A1", "A2", "B2" >>

\* sorted(S) for a set of channel tokens / of well names
SortNames(S) == SelectSeq(NameOrder, LAMBDA n : n \in S)
SortWells(S) == SelectSeq(WellOrder, LAMBDA n : n \in S)

\* A Python dict is a function whose domain is its key set
EmptyDict == <<>>
DictSet(d, k, v) == [x \in (DOMAIN d) \cup {k} |-> IF x = k THEN v ELSE d[x]]

\* WellData(well_name=...): the dataclass defaults
NewWellData(name) ==
    [ well_name |-> name, channels |-> EmptyDict, raw_channels |-> EmptyDict,
      cycles |-> <<>>, ct_values |-> EmptyDict, metadata |-> EmptyDict ]

\* PCRDataModel(): wells is a dict, which keeps insertion order
EmptyModel == [order |-> <<>>, wells |-> EmptyDict]

\* PCRDataModel.add_well
AddWell(m, well_data) ==
    [ order |-> IF well_data.well_name \in DOMAIN m.wells
                THEN m.order ELSE Append(m.order, well_data.well_name),
      wells |-> DictSet(m.wells, well_data.well_name, well_data) ]

\* WellData.has_channel
HasChannel(well, channel_name) ==
    /\ channel_name \in DOMAIN well.channels
    /\ Len(well.channels[channel_name]) > 0

\* PCRDataModel.get_all_channels: the two exclusion lists of lines 51 and 54
AmpExcluded == {"Well", "Channel", "Amplification", "Value", "Cycle"}
RawExcluded == {"Well", "Channel", "RawValue", "Value", "Cycle"}

GetAllChannels(m) ==
    SortNames(
        UNION { {ch \in DOMAIN m.wells[w].channels : ch \notin AmpExcluded}
                    \cup {ch \in DOMAIN m.wells[w].raw_channels : ch \notin RawExcluded}
                : w \in DOMAIN m.wells })

\* PCRDataModel.get_wells_by_channels: the names of the wells returned
GetWellsByChannels(m, channel_names) ==
    SelectSeq(m.order,
              LAMBDA w : \E i \in 1..Len(channel_names) :
                             HasChannel(m.wells[w], channel_names[i]))

\* the column names to_dataframe skips (line 91)
QuerySkipped == {"Well", "Channel", "Amplification", "Value", "Cycle", "RawValue"}

\* list(range(1, n + 1))
RangeList(n) == [i \in 1..n |-> i]

DefaultAmpCycles == 40
DefaultRawCycles == 42

\* to_dataframe labelling each row with the channel the values were read from
AmpRowsOfActualLabel(well_name, well, channel_name) ==
    LET cycles == IF well.cycles # <<>> THEN well.cycles ELSE RangeList(40)
        actual_channel ==
            IF HasChannel(well, channel_name) THEN channel_name
            ELSE IF channel_name = "HEX" /\ HasChannel(well, "VIC") THEN "VIC"
            ELSE IF channel_name = "VIC" /\ HasChannel(well, "HEX") THEN "HEX"
            ELSE "?"
    IN  IF channel_name \in QuerySkipped \/ actual_channel = "?" THEN <<>>
        ELSE [ i \in 1..Min(Len(cycles), Len(well.channels[actual_channel])) |->
                 [ Cycle |-> cycles[i], Well |-> well_name,
                   Channel |-> actual_channel,
                   Value |-> well.channels[actual_channel][i] ] ]

\* lines 89-118: the rows of one (well, channel) of to_dataframe
AmpRowsOf(well_name, well, channel_name) ==
    LET cycles == IF well.cycles # <<>> THEN well.cycles ELSE RangeList(DefaultAmpCycles)
        found == HasChannel(well, channel_name)
        actual_channel ==
            IF found THEN channel_name
            ELSE IF channel_name = "HEX" /\ HasChannel(well, "VIC") THEN "VIC"
            ELSE IF channel_name = "VIC" /\ HasChannel(well, "HEX") THEN "HEX"
            ELSE "?"
    IN  IF channel_name \in QuerySkipped THEN <<>>
        ELSE IF actual_channel = "?" THEN <<>>
        ELSE LET values == well.channels[actual_channel]
                 min_len == Min(Len(cycles), Len(values))
             IN  [ i \in 1..min_len |->
                     [ Cycle |-> cycles[i], Well |-> well_name,
                       Channel |-> channel_name, Value |-> values[i] ] ]

\* lines 161-203: the rows of one (well, channel) of get_raw_data
RawRowsOf(well_name, well, channel_name) ==
    LET cycles == IF well.cycles # <<>> THEN well.cycles ELSE RangeList(DefaultRawCycles)
        InRaw(c) == c \in DOMAIN well.raw_channels
        InAmp(c) == c \in DOMAIN well.channels
        actual_channel ==
            IF InRaw(channel_name) \/ InAmp(channel_name) THEN channel_name
            ELSE IF channel_name = "HEX" /\ (InRaw("VIC") \/ InAmp("VIC")) THEN "VIC"
            ELSE IF channel_name = "VIC" /\ (InRaw("HEX") \/ InAmp("HEX")) THEN "HEX"
            ELSE "?"
    IN  IF actual_channel = "?" THEN <<>>
        ELSE LET values == IF InRaw(actual_channel)
                           THEN well.raw_channels[actual_channel]
                           ELSE well.channels[actual_channel]
                 min_len == Min(Len(cycles), Len(values))
             IN  [ i \in 1..min_len |->
                     [ Cycle |-> cycles[i], Well |-> well_name,
                       Channel |-> channel_name, RawValue |-> values[i] ] ]

\* the body of the inner loop: that of to_dataframe or that of get_raw_data
RowsOf(kind, well_name, well, channel_name) ==
    IF kind = "amp" THEN AmpRowsOf(well_name, well, channel_name)
    ELSE RawRowsOf(well_name, well, channel_name)

\* the loop over target_channels, then over target_wells
RECURSIVE RowsOverChannels(_, _, _, _, _)
RowsOverChannels(kind, well_name, well, channels, i) ==
    IF i > Len(channels) THEN <<>>
    ELSE RowsOf(kind, well_name, well, channels[i])
            \o RowsOverChannels(kind, well_name, well, channels, i + 1)

RECURSIVE RowsOverWells(_, _, _, _, _)
RowsOverWells(kind, m, wells, channels, i) ==
    IF i > Len(wells) THEN <<>>
    ELSE (IF wells[i] \in DOMAIN m.wells
          THEN RowsOverChannels(kind, wells[i], m.wells[wells[i]], channels, 1)
          ELSE <<>>)
            \o RowsOverWells(kind, m, wells, channels, i + 1)

\* PCRDataModel.to_dataframe.  An argument that is None or an empty list is
\* the empty sequence: the code only tests its truth value.
ToDataframe(m, well_names, channel_names) ==
    LET target_wells == IF well_names # <<>> THEN well_names ELSE m.order
        target_channels == IF channel_names # <<>> THEN channel_names
                           ELSE GetAllChannels(m)
    IN  RowsOverWells("amp", m, target_wells, target_channels, 1)

\* PCRDataModel.get_amplification_data: to_dataframe plus the column
\* Amplification, a copy of Value
GetAmplificationData(m, well_names, channel_names) ==
    LET df == ToDataframe(m, well_names, channel_names)
    IN  [ i \in 1..Len(df) |->
            [ Cycle |-> df[i].Cycle, Well |-> df[i].Well, Channel |-> df[i].Channel,
              Value |-> df[i].Value, Amplification |-> df[i].Value ] ]

\* PCRDataModel.get_raw_data
GetRawData(m, well_names, channel_names) ==
    LET target_wells == IF well_names # <<>> THEN well_names ELSE m.order
        target_channels == IF channel_names # <<>> THEN channel_names
                           ELSE GetAllChannels(m)
    IN  RowsOverWells("raw", m, target_wells, target_channels, 1)

(***************************************************************************)
(* Format detection: ExcelParser.detect_vendor                             *)
(***************************************************************************)
\* Sheet names are sequences of characters.  The five 7500 sheet names are
\* only ever compared as a whole, so each is a single token.  The vendor-A
\* markers are the four-character words "shi yan shu ju" (experiment data)
\* and "kuo zeng qu xian" (amplification curve), searched as substrings.
SampleSetup == <<"Sample Setup">>
AmplificationData == <<"Amplification Data">>
Results == <<"Results">>
RawData == <<"Raw Data">>
MulticomponentData == <<"Multicomponent Data">>
MarkerExp == <<"shi", "yan", "shu", "ju">>
MarkerCurve == <<"kuo", "zeng", "qu", "xian">>

\* Python's `marker in name` on strings
Contains(name, marker) ==
    \E i \in 1..(Len(name) - Len(marker) + 1) :
        SubSeq(name, i, i + Len(marker) - 1) = marker

\* Python's `name in sheet_names` on a list
InList(name, names) == \E i \in 1..Len(names) : names[i] = name

\* DetectFromNames with the second signature lacking its Results requirement
DetectFromNamesNoResults(names) ==
    LET has_sample_setup == InList(SampleSetup, names)
        has_amplification == InList(AmplificationData, names)
        has_results == InList(Results, names)
        has_raw_data == InList(RawData, names)
    IN  IF (has_sample_setup /\ has_results)
           \/ (has_amplification /\ has_raw_data)
        THEN "vendor_7500"
        ELSE IF \E i \in 1..Len(names) :
                   Contains(names[i], MarkerExp) \/ Contains(names[i], MarkerCurve)
             THEN "vendor_a"
             ELSE "default"

\* DetectFromNames with the vendor-A test placed before the 7500 test
DetectFromNamesMarkerFirst(names) ==
    LET has_sample_setup == InList(SampleSetup, names)
        has_amplification == InList(AmplificationData, names)
        has_results == InList(Results, names)
        has_raw_data == InList(RawData, names)
    IN  IF \E i \in 1..Len(names) :
              Contains(names[i], MarkerExp) \/ Contains(names[i], MarkerCurve)
        THEN "vendor_a"
        ELSE IF (has_sample_setup /\ has_results)
                \/ (has_amplification /\ has_results /\ has_raw_data)
             THEN "vendor_7500"
             ELSE "default"

\* lines 58-74: the decision on the sheet-name list
DetectFromNames(names) ==
    LET has_sample_setup == InList(SampleSetup, names)
        has_amplification == InList(AmplificationData, names)
        has_results == InList(Results, names)
        has_raw_data == InList(RawData, names)
    IN  IF (has_sample_setup /\ has_results)
           \/ (has_amplification /\ has_results /\ has_raw_data)
        THEN "vendor_7500"
        ELSE IF \E i \in 1..Len(names) :
                   Contains(names[i], MarkerExp) \/ Contains(names[i], MarkerCurve)
             THEN "vendor_a"
             ELSE "default"

\* lines 41-56: obtaining the sheet-name list.  ok: a list was read;
\* raised: the exception of openpyxl.load_workbook left the function.
ReadSheetNames(f) ==
    IF f.ext = ".xls"
    THEN IF f.xlrd_ok
         THEN [ok |-> TRUE, raised |-> FALSE, names |-> f.sheets]
         ELSE IF f.openpyxl_ok
              THEN [ok |-> TRUE, raised |-> FALSE, names |-> f.sheets]
              ELSE [ok |-> FALSE, raised |-> FALSE, names |-> <<>>]
    ELSE IF f.openpyxl_ok
         THEN [ok |-> TRUE, raised |-> FALSE, names |-> f.sheets]
         ELSE [ok |-> FALSE, raised |-> TRUE, names |-> <<>>]

\* The sheet names a workbook may hold
MaxSheets == 3
SheetUniverse ==
    { SampleSetup, AmplificationData, Results, RawData, MulticomponentData,
      MarkerExp,
      <<"1">> \o MarkerCurve \o <<"2">>,
      <<"shi", "yan", "qu", "xian">>,
      <<"Sheet1">> }

Files ==
    { f \in [ext : {".xls", ".xlsx"}, xlrd_ok : BOOLEAN, openpyxl_ok : BOOLEAN,
             sheets : SeqsUpTo(SheetUniverse, MaxSheets)] :
        \* openpyxl refuses the .xls extension
        /\ (f.ext = ".xls" => ~f.openpyxl_ok)
        \* xlrd is only ever asked for .xls files
        /\ (f.ext = ".xlsx" => ~f.xlrd_ok) }

\* ExcelParser.detect_vendor(file_path)
DetectVendor ==
    /\ detected = "pending"
    /\ LET r == ReadSheetNames(file)
       IN  /\ sheet_names' = r.names
           /\ detected' = IF r.raised THEN "raised"
                          ELSE IF ~r.ok THEN "default"
                          ELSE DetectFromNames(r.names)
    /\ UNCHANGED <<file, vendor_type, grid, parsed_data, model, pc, query, rows, ui>>

EmptyParsed == [amplification_data |-> <<>>, raw_data |-> <<>>, well_data |-> <<>>]
NoQuery == [kind |-> "none"]

InitDetect ==
    /\ file \in Files
    /\ sheet_names = <<>>
    /\ detected = "pending"
    /\ vendor_type = "none"
    /\ grid = <<>>
    /\ parsed_data = EmptyParsed
    /\ model = EmptyModel
    /\ pc = [at |-> "idle", i |-> 0]
    /\ query = NoQuery
    /\ rows = <<>>
    /\ ui = NoUi

NextDetect == DetectVendor

SpecDetect == InitDetect /\ [][NextDetect]_vars

(***************************************************************************)
(* Conversion: data_converter.py                                           *)
(*                                                                         *)
(* An intermediate table is a sequence of rows.  A row of                  *)
(* amplification_data is [Cycle, Well, Channel, Amplification, Ct,         *)
(* SampleName], a row of raw_data is [Cycle, Well, Channel, RawValue]; a   *)
(* cell the scanner left out of a row is NaN, as in the DataFrame built    *)
(* from the row dicts.  Well and channel tokens carry no surrounding       *)
(* blanks, so str(x).strip() returns them unchanged.                       *)
(*                                                                         *)
(* convert() is followed group by group: pc.i is the index of the next     *)
(* (well, channel) group of the loop named by pc.at.                       *)
(***************************************************************************)
\* the channel names convert() skips (lines 45, 108, 232, 295)
ConvertRejected == {"Well", "Channel", "Amplification", "Value", "Cycle", "RawValue"}

\* every (well, channel) pair in the order groupby(['Well', 'Channel']) yields
AllKeys ==
    [ k \in 1..(Len(WellOrder) * Len(NameOrder)) |->
        << WellOrder[((k - 1) \div Len(NameOrder)) + 1],
           NameOrder[((k - 1) % Len(NameOrder)) + 1] >> ]

\* the keys of the groups of a table, sorted
GroupKeys(table) ==
    SelectSeq(AllKeys,
              LAMBDA key : \E i \in 1..Len(table) :
                               table[i].Well = key[1] /\ table[i].Channel = key[2])

\* one group: its rows in table order
GroupRows(table, key) ==
    SelectSeq(table, LAMBDA r : r.Well = key[1] /\ r.Channel = key[2])

\* every order of a set of row indices
RECURSIVE PermsOf(_)
PermsOf(I) ==
    IF I = {} THEN {<<>>}
    ELSE UNION { {<<i>> \o p : p \in PermsOf(I \ {i})} : i \in I }

\* the rows of g whose Cycle is in cycles, by ascending Cycle, the rows of one
\* Cycle in every order
RECURSIVE SortedFrom(_, _)
SortedFrom(g, cycles) ==
    IF cycles = {} THEN {<<>>}
    ELSE LET c == CHOOSE x \in cycles : \A y \in cycles : x <= y
             I == {i \in 1..Len(g) : g[i].Cycle = c}
         IN  { [k \in 1..Len(p) |-> g[p[k]]] \o rest :
                 p \in PermsOf(I), rest \in SortedFrom(g, cycles \ {c}) }

\* SortsByCycle without the sort: the group in table order
SortsByCycleUnsorted(g) == {g}

\* group_df.sort_values('Cycle'): the default sort is not stable, so rows of
\* equal Cycle come out in any order
SortsByCycle(g) == SortedFrom(g, {g[i].Cycle : i \in 1..Len(g)})

Column(g, name) == [i \in 1..Len(g) |-> g[i][name]]

\* series.dropna().iloc[0], NaN when nothing is left
FirstNotNa(col) ==
    LET idx == {i \in 1..Len(col) : NotNa(col[i])}
    IN  IF idx = {} THEN NaN ELSE col[CHOOSE i \in idx : \A j \in idx : i <= j]

\* [v if pd.notna(v) else 0.0 for v in values]
CoerceNa(values) == [i \in 1..Len(values) |-> IF NotNa(values[i]) THEN values[i] ELSE Num(0)]

\* Repair without the truncation of a longer group
RepairPadOnly(values, cycles) ==
    IF cycles # <<>> /\ Len(values) < Len(cycles)
    THEN values \o [i \in 1..(Len(cycles) - Len(values)) |-> Num(0)]
    ELSE values

\* lines 81-85: truncate or zero-pad to the well's cycle count
Repair(values, cycles) ==
    IF cycles # <<>> /\ Len(values) # Len(cycles)
    THEN IF Len(values) > Len(cycles)
         THEN SubSeq(values, 1, Len(cycles))
         ELSE values \o [i \in 1..(Len(cycles) - Len(values)) |-> Num(0)]
    ELSE values

\* sorted(series.unique().tolist())
RECURSIVE SortedList(_)
SortedList(S) ==
    IF S = {} THEN <<>>
    ELSE LET m == CHOOSE x \in S : \A y \in S : x <= y
         IN  <<m>> \o SortedList(S \ {m})

\* a WellData created for every group, whether or not the well is stored
WellOrNewFresh(m, well_name) == NewWellData(well_name)

\* model.get_well(name), or a new WellData
WellOrNew(m, well_name) ==
    IF well_name \in DOMAIN m.wells THEN m.wells[well_name] ELSE NewWellData(well_name)

\* VendorAConverter.convert, lines 37-94: one group g (sorted) of amplification_data
VendorAAmpGroup(m, key, g) ==
    LET well_name == key[1]
        channel_name == key[2]
        well0 == WellOrNew(m, well_name)
        cycles == Column(g, "Cycle")
        well1 == IF well0.cycles = <<>> THEN [well0 EXCEPT !.cycles = cycles] ELSE well0
        sample_name == FirstNotNa(Column(g, "SampleName"))
        well2 == IF NotNa(sample_name)
                 THEN [well1 EXCEPT !.metadata = DictSet(@, "sample_name", sample_name.s)]
                 ELSE well1
        values == Repair(CoerceNa(Column(g, "Amplification")), well2.cycles)
        well3 == [well2 EXCEPT !.channels = DictSet(@, channel_name, values)]
        ct == FirstNotNa(Column(g, "Ct"))
        well4 == IF NotNa(ct)
                 THEN [well3 EXCEPT !.ct_values = DictSet(@, channel_name, ct.n)]
                 ELSE well3
    IN  IF channel_name \in ConvertRejected THEN m ELSE AddWell(m, well4)

\* VendorAConverter.convert, lines 100-141: one group g (sorted) of raw_data
VendorARawGroup(m, well_data, key, g) ==
    LET well_name == key[1]
        channel_name == key[2]
        well0 == WellOrNew(m, well_name)
        coerced == CoerceNa(Column(g, "RawValue"))
        values == IF well0.cycles # <<>>
                  THEN IF Len(coerced) > Len(well0.cycles)
                       THEN SubSeq(coerced, 1, Len(well0.cycles))
                       ELSE coerced \o [i \in 1..(Len(well0.cycles) - Len(coerced)) |-> Num(0)]
                  ELSE coerced
        well1 == [well0 EXCEPT !.raw_channels = DictSet(@, channel_name, values)]
        well2 == IF well1.cycles = <<>>
                 THEN LET w == [well1 EXCEPT !.cycles = SortedList(Range(Column(g, "Cycle")))]
                      IN  IF well_name \in DOMAIN well_data
                             /\ "ct" \in DOMAIN well_data[well_name]
                          THEN [w EXCEPT !.ct_values =
                                   DictSet(@, channel_name, well_data[well_name]["ct"].n)]
                          ELSE w
                 ELSE well1
    IN  IF channel_name \in ConvertRejected THEN m ELSE AddWell(m, well2)

\* Vendor7500Converter.convert, lines 224-279: one group g (sorted) of amplification_data
Vendor7500AmpGroup(m, well_data, key, g) ==
    LET well_name == key[1]
        channel_name == key[2]
        well0 == WellOrNew(m, well_name)
        cycles == Column(g, "Cycle")
        well1 == IF well0.cycles = <<>> THEN [well0 EXCEPT !.cycles = cycles] ELSE well0
        well2 == IF well_name \in DOMAIN well_data
                    /\ "sample_name" \in DOMAIN well_data[well_name]
                 THEN [well1 EXCEPT !.metadata =
                          DictSet(@, "sample_name", well_data[well_name]["sample_name"].s)]
                 ELSE well1
        values == Repair(CoerceNa(Column(g, "Amplification")), well2.cycles)
        well3 == [well2 EXCEPT !.channels = DictSet(@, channel_name, values)]
        well4 == IF well_name \in DOMAIN well_data
                    /\ channel_name \in DOMAIN well_data[well_name]
                 THEN LET ct_value == well_data[well_name][channel_name]
                      IN  IF ct_value.t = "num" /\ 0 < ct_value.n /\ ct_value.n <= 42
                          THEN [well3 EXCEPT !.ct_values = DictSet(@, channel_name, ct_value.n)]
                          ELSE well3
                 ELSE well3
    IN  IF channel_name \in ConvertRejected THEN m ELSE AddWell(m, well4)

\* Vendor7500Converter.convert, lines 287-327: one group g (sorted) of raw_data
Vendor7500RawGroup(m, key, g) ==
    LET well_name == key[1]
        channel_name == key[2]
        well0 == WellOrNew(m, well_name)
        cycles == Column(g, "Cycle")
        well1 == IF well0.cycles = <<>> THEN [well0 EXCEPT !.cycles = cycles] ELSE well0
        values == Repair(CoerceNa(Column(g, "RawValue")), well1.cycles)
        well2 == [well1 EXCEPT !.raw_channels = DictSet(@, channel_name, values)]
    IN  IF channel_name \in ConvertRejected THEN m ELSE AddWell(m, well2)

\* the position after group i of loop `at`: the next group, the raw loop, or the end
PcAt(pd, at, i) ==
    LET amp == GroupKeys(pd.amplification_data)
        raw == GroupKeys(pd.raw_data)
    IN  IF at = "amp" /\ i <= Len(amp) THEN [at |-> "amp", i |-> i]
        ELSE IF at = "amp" THEN (IF Len(raw) >= 1 THEN [at |-> "raw", i |-> 1]
                                 ELSE [at |-> "done", i |-> 0])
        ELSE IF i <= Len(raw) THEN [at |-> "raw", i |-> i]
        ELSE [at |-> "done", i |-> 0]

ConvertAmpGroupA ==
    /\ vendor_type = "vendor_a"
    /\ pc.at = "amp"
    /\ LET key == GroupKeys(parsed_data.amplification_data)[pc.i]
       IN  \E g \in SortsByCycle(GroupRows(parsed_data.amplification_data, key)) :
              model' = VendorAAmpGroup(model, key, g)
    /\ pc' = PcAt(parsed_data, "amp", pc.i + 1)
    /\ UNCHANGED <<file, sheet_names, detected, vendor_type, grid, parsed_data, query, rows, ui>>

ConvertRawGroupA ==
    /\ vendor_type = "vendor_a"
    /\ pc.at = "raw"
    /\ LET key == GroupKeys(parsed_data.raw_data)[pc.i]
       IN  \E g \in SortsByCycle(GroupRows(parsed_data.raw_data, key)) :
              model' = VendorARawGroup(model, parsed_data.well_data, key, g)
    /\ pc' = PcAt(parsed_data, "raw", pc.i + 1)
    /\ UNCHANGED <<file, sheet_names, detected, vendor_type, grid, parsed_data, query, rows, ui>>

ConvertAmpGroup7500 ==
    /\ vendor_type = "vendor_7500"
    /\ pc.at = "amp"
    /\ LET key == GroupKeys(parsed_data.amplification_data)[pc.i]
       IN  \E g \in SortsByCycle(GroupRows(parsed_data.amplification_data, key)) :
              model' = Vendor7500AmpGroup(model, parsed_data.well_data, key, g)
    /\ pc' = PcAt(parsed_data, "amp", pc.i + 1)
    /\ UNCHANGED <<file, sheet_names, detected, vendor_type, grid, parsed_data, query, rows, ui>>

ConvertRawGroup7500 ==
    /\ vendor_type = "vendor_7500"
    /\ pc.at = "raw"
    /\ LET key == GroupKeys(parsed_data.raw_data)[pc.i]
       IN  \E g \in SortsByCycle(GroupRows(parsed_data.raw_data, key)) :
              model' = Vendor7500RawGroup(model, key, g)
    /\ pc' = PcAt(parsed_data, "raw", pc.i + 1)
    /\ UNCHANGED <<file, sheet_names, detected, vendor_type, grid, parsed_data, query, rows, ui>>

(***************************************************************************)
(* Spec: convert() of vendor_a and vendor_7500 on bounded intermediate     *)
(* tables                                                                  *)
(***************************************************************************)
MaxRows == 3
TableWells == {"A1", "B2"}
TableChannels == {"FAM", "VIC", "Cycle"}
TableCycles == {1, 2}

\* Row i of a table carries the value 10 * i (amplification) or 10 * i + 5
\* (raw), so that every value of a table tells the row it came from
AmpTables(n) ==
    { [ i \in 1..n |->
          [ Cycle |-> f[i][3], Well |-> f[i][1], Channel |-> f[i][2],
            Amplification |-> Num(10 * i), Ct |-> NaN, SampleName |-> NaN ] ] :
      f \in [1..n -> TableWells \X TableChannels \X TableCycles] }

RawTables(n) ==
    { [ i \in 1..n |->
          [ Cycle |-> f[i][3], Well |-> f[i][1], Channel |-> f[i][2],
            RawValue |-> Num(10 * i + 5) ] ] :
      f \in [1..n -> TableWells \X TableChannels \X TableCycles] }

\* the auxiliary well map handed to convert() along with the tables
WellDataOf(vendor) ==
    IF vendor = "vendor_a"
    THEN ("A1" :> [well |-> Str("A1"), ct |-> Num(30)])
    ELSE ("A1" :> [channels |-> [t |-> "list", v |-> <<"FAM", "VIC">>],
                   sample_name |-> Str("S1"), FAM |-> Num(30), VIC |-> Num(45)])

Init ==
    /\ file = [ext |-> ".xlsx", xlrd_ok |-> FALSE, openpyxl_ok |-> TRUE, sheets |-> <<>>]
    /\ sheet_names = <<>>
    /\ detected = "pending"
    /\ vendor_type \in {"vendor_a", "vendor_7500"}
    /\ grid = <<>>
    /\ \E a \in 0..MaxRows :
         \E r \in 0..(MaxRows - a) :
           \E amp \in AmpTables(a), raw \in RawTables(r) :
              parsed_data = [amplification_data |-> amp, raw_data |-> raw,
                             well_data |-> WellDataOf(vendor_type)]
    /\ model = EmptyModel
    /\ pc = PcAt(parsed_data, "amp", 1)
    /\ query = NoQuery
    /\ rows = <<>>
    /\ ui = NoUi

Next ==
    \/ ConvertAmpGroupA
    \/ ConvertRawGroupA
    \/ ConvertAmpGroup7500
    \/ ConvertRawGroup7500

Spec == Init /\ [][Next]_vars

(***************************************************************************)
(* Queries on a model: the read API of PCRDataModel                        *)
(***************************************************************************)
MaxQueryLen == 2

NameRank(n) == CHOOSE i \in 1..Len(NameOrder) : NameOrder[i] = n

\* A signal sequence whose values tell the map and the key they are stored
\* under: 10 * rank of the key + position, raw signals 1000 higher
SampleSeq(kind, ch, len) ==
    [i \in 1..len |-> Num((IF kind = "raw" THEN 1000 ELSE 0) + 10 * NameRank(ch) + i)]

\* every dict over the keys ks whose value at k is one of Vals(k)
DictsOver(ks, Vals) ==
    UNION { {d \in [K -> UNION {Vals[k] : k \in K}] : \A k \in K : d[k] \in Vals[k]}
            : K \in SUBSET ks }

QueryChannelDicts ==
    DictsOver({"HEX", "VIC", "RawValue"},
              [k \in {"HEX", "VIC", "RawValue"} |->
                  IF k = "RawValue"
                  THEN {SampleSeq("amp", k, MaxQueryLen)}
                  ELSE {SampleSeq("amp", k, n) : n \in 0..MaxQueryLen}])

QueryRawDicts ==
    DictsOver({"HEX", "VIC", "Amplification"},
              [k \in {"HEX", "VIC", "Amplification"} |->
                  IF k = "Amplification"
                  THEN {SampleSeq("raw", k, MaxQueryLen)}
                  ELSE {SampleSeq("raw", k, n) : n \in {0, MaxQueryLen}}])

\* the wells a model under query may hold at A1
QueryWells ==
    { [ well_name |-> "A1", channels |-> c, raw_channels |-> r,
        cycles |-> [i \in 1..n |-> i + 1], ct_values |-> EmptyDict,
        metadata |-> EmptyDict ] :
      c \in QueryChannelDicts, r \in QueryRawDicts, n \in 0..MaxQueryLen }

\* a second well, B2, with FAM data only
QueryWellB2 ==
    [ well_name |-> "B2", channels |-> ("FAM" :> SampleSeq("amp", "FAM", 1)),
      raw_channels |-> EmptyDict, cycles |-> <<1>>, ct_values |-> EmptyDict,
      metadata |-> EmptyDict ]

QueryWellArgs == { <<>>, <<"A1">> }
QueryChannelArgs == { <<>>, <<"HEX">>, <<"VIC">>, <<"RawValue">> }

\* PCRDataModel.get_well: the stored WellData, nothing for None
GetWell(m, well_name) ==
    IF well_name \in DOMAIN m.wells THEN <<m.wells[well_name]>> ELSE <<>>

QueryGetWell ==
    /\ pc.at = "query"
    /\ \E wn \in {"A1", "Z9"} :
          /\ query' = [kind |-> "get_well", well_name |-> wn]
          /\ rows' = GetWell(model, wn)
    /\ UNCHANGED <<file, sheet_names, detected, vendor_type, grid, parsed_data, model, pc, ui>>

\* a to_dataframe that stores the series it served under the name asked for
QueryToDataframeStoring ==
    /\ pc.at = "query"
    /\ \E wn \in QueryWellArgs, cn \in QueryChannelArgs :
          /\ query' = [kind |-> "to_dataframe", well_names |-> wn, channel_names |-> cn]
          /\ rows' = ToDataframe(model, wn, cn)
          /\ model' =
                [ model EXCEPT !.wells =
                    [ w \in DOMAIN @ |->
                        IF cn = <<"HEX">> /\ ~HasChannel(@[w], "HEX") /\ HasChannel(@[w], "VIC")
                        THEN [@[w] EXCEPT !.channels = DictSet(@, "HEX", @["VIC"])]
                        ELSE @[w] ] ]
    /\ UNCHANGED <<file, sheet_names, detected, vendor_type, grid, parsed_data, pc, ui>>

QueryToDataframe ==
    /\ pc.at = "query"
    /\ \E wn \in QueryWellArgs, cn \in QueryChannelArgs :
          /\ query' = [kind |-> "to_dataframe", well_names |-> wn, channel_names |-> cn]
          /\ rows' = ToDataframe(model, wn, cn)
    /\ UNCHANGED <<file, sheet_names, detected, vendor_type, grid, parsed_data, model, pc, ui>>

\* to_dataframe(['A1'], ['FAM']) on the model convert() returned
QueryConverted ==
    /\ pc.at = "done"
    /\ query' = [kind |-> "to_dataframe", well_names |-> <<"A1">>,
                 channel_names |-> <<"FAM">>]
    /\ rows' = ToDataframe(model, <<"A1">>, <<"FAM">>)
    /\ UNCHANGED <<file, sheet_names, detected, vendor_type, grid, parsed_data, model, pc, ui>>

QueryAmplificationData ==
    /\ pc.at = "query"
    /\ \E wn \in QueryWellArgs, cn \in QueryChannelArgs :
          /\ query' = [kind |-> "get_amplification_data", well_names |-> wn,
                       channel_names |-> cn]
          /\ rows' = GetAmplificationData(model, wn, cn)
    /\ UNCHANGED <<file, sheet_names, detected, vendor_type, grid, parsed_data, model, pc, ui>>

QueryRawData ==
    /\ pc.at = "query"
    /\ \E wn \in QueryWellArgs, cn \in QueryChannelArgs :
          /\ query' = [kind |-> "get_raw_data", well_names |-> wn, channel_names |-> cn]
          /\ rows' = GetRawData(model, wn, cn)
    /\ UNCHANGED <<file, sheet_names, detected, vendor_type, grid, parsed_data, model, pc, ui>>

QueryAllChannels ==
    /\ pc.at = "query"
    /\ query' = [kind |-> "get_all_channels"]
    /\ rows' = GetAllChannels(model)
    /\ UNCHANGED <<file, sheet_names, detected, vendor_type, grid, parsed_data, model, pc, ui>>

QueryWellsByChannels ==
    /\ pc.at = "query"
    /\ \E cn \in QueryChannelArgs :
          /\ query' = [kind |-> "get_wells_by_channels", channel_names |-> cn]
          /\ rows' = GetWellsByChannels(model, cn)
    /\ UNCHANGED <<file, sheet_names, detected, vendor_type, grid, parsed_data, model, pc, ui>>

InitQuery ==
    /\ file = [ext |-> ".xlsx", xlrd_ok |-> FALSE, openpyxl_ok |-> TRUE, sheets |-> <<>>]
    /\ sheet_names = <<>>
    /\ detected = "pending"
    /\ vendor_type = "none"
    /\ grid = <<>>
    /\ parsed_data = EmptyParsed
    /\ \E w \in QueryWells :
          model \in { AddWell(EmptyModel, w),
                      AddWell(AddWell(EmptyModel, QueryWellB2), w) }
    /\ pc = [at |-> "query", i |-> 0]
    /\ query = NoQuery
    /\ rows = <<>>
    /\ ui = NoUi

NextQuery ==
    \/ QueryGetWell
    \/ QueryToDataframe
    \/ QueryAmplificationData
    \/ QueryRawData
    \/ QueryAllChannels
    \/ QueryWellsByChannels

SpecQuery == InitQuery /\ [][NextQuery]_vars

(***************************************************************************)
(* DefaultConverter.convert and SpecDefault                                *)
(*                                                                         *)
(* The table of the default path is wide: a set of columns and a sequence  *)
(* of rows, each a function from the columns to cells.                     *)
(***************************************************************************)
\* the column names tried for the well column (line 173); "kongwei" stands
\* for the two-character Chinese name
WellColumnNames == << "Well", "kongwei", "well", "WellName" >>

\* df[col].unique(): the distinct cells in order of first appearance
RECURSIVE Unique(_)
Unique(col) ==
    IF col = <<>> THEN <<>>
    ELSE LET rest == Unique(SubSeq(col, 1, Len(col) - 1))
             last == col[Len(col)]
         IN  IF \E i \in 1..Len(rest) : rest[i] = last THEN rest ELSE Append(rest, last)

\* lines 187-191 and 199-203: the channels of one well from its rows
DefaultChannels(channels, well_rows) ==
    [ch \in channels |-> CoerceNa(Column(well_rows, ch))]

RECURSIVE DefaultAddWells(_, _, _, _, _, _)
DefaultAddWells(m, df, well_col, channels, cycles, names) ==
    IF names = <<>> THEN m
    ELSE LET well_name == names[1]
             well_df == SelectSeq(df.rows, LAMBDA r : r[well_col] = well_name)
             well == [NewWellData(well_name.s) EXCEPT
                         !.cycles = cycles,
                         !.channels = DefaultChannels(channels, well_df)]
             m1 == IF NotNa(well_name) THEN AddWell(m, well) ELSE m
         IN  DefaultAddWells(m1, df, well_col, channels, cycles, Tail(names))

\* DefaultConverter.convert
DefaultConvert(pd) ==
    LET df == pd.amplification_data
        channels == df.columns \ {"Cycle"}
        cycles == IF "Cycle" \in df.columns
                  THEN [i \in 1..Len(df.rows) |-> df.rows[i]["Cycle"].n]
                  ELSE RangeList(Len(df.rows))
        found == SelectSeq(WellColumnNames, LAMBDA c : c \in df.columns)
    IN  IF df.rows = <<>> \/ df.columns = {} THEN EmptyModel
        ELSE IF found # <<>>
        THEN DefaultAddWells(EmptyModel, df, found[1], channels, cycles,
                             Unique(Column(df.rows, found[1])))
        ELSE AddWell(EmptyModel,
                     [NewWellData("A1") EXCEPT
                         !.cycles = cycles,
                         !.channels = DefaultChannels(channels, df.rows)])

\* ConverterFactory.convert_data with a tag that selects DefaultConverter
ConvertDefault ==
    /\ vendor_type \notin {"vendor_a", "vendor_7500"}
    /\ pc.at = "convert"
    /\ model' = DefaultConvert(parsed_data)
    /\ pc' = [at |-> "done", i |-> 0]
    /\ UNCHANGED <<file, sheet_names, detected, vendor_type, grid, parsed_data, query, rows, ui>>

\* get_all_channels() on the model convert() returned
QueryAllChannelsConverted ==
    /\ pc.at = "done"
    /\ query' = [kind |-> "get_all_channels"]
    /\ rows' = GetAllChannels(model)
    /\ UNCHANGED <<file, sheet_names, detected, vendor_type, grid, parsed_data, model, pc, ui>>

MaxWideRows == 2
WideColumns == {"Cycle", "Well", "FAM", "RawValue"}

\* a cell that holds text where a number is expected
TextToken == Str("N/A")

\* the rows of position i over the columns C; a value tells its row
WideRows(C, i) ==
    { [ c \in C |-> IF c = "Cycle" THEN cy
                    ELSE IF c = "Well" THEN w
                    ELSE IF c = "FAM" THEN f
                    ELSE Num(10 * i + 1) ] :
      cy \in {Num(1), Num(2)}, w \in {Str("A1"), Str("B2")}, f \in {Num(10 * i), NaN, TextToken} }

RECURSIVE WideRowSeqs(_, _)
WideRowSeqs(C, n) ==
    IF n = 0 THEN {<<>>}
    ELSE {Append(t, r) : t \in WideRowSeqs(C, n - 1), r \in WideRows(C, n)}

WideTables ==
    UNION { UNION { {[columns |-> C, rows |-> rs] : rs \in WideRowSeqs(C, n)}
                    : n \in 0..MaxWideRows }
            : C \in {X \in SUBSET WideColumns : X \ {"Cycle"} # {}} }

InitDefault ==
    /\ file = [ext |-> ".xlsx", xlrd_ok |-> FALSE, openpyxl_ok |-> TRUE, sheets |-> <<>>]
    /\ sheet_names = <<>>
    /\ detected = "pending"
    /\ vendor_type \in {"default", "vendor_b"}
    /\ grid = <<>>
    /\ \E t \in WideTables :
          parsed_data = [amplification_data |-> t, raw_data |-> <<>>, well_data |-> <<>>]
    /\ model = EmptyModel
    /\ pc = [at |-> "convert", i |-> 0]
    /\ query = NoQuery
    /\ rows = <<>>
    /\ ui = NoUi

NextDefault == ConvertDefault \/ QueryAllChannelsConverted

SpecDefault == InitDefault /\ [][NextDefault]_vars

(***************************************************************************)
(* The vendor-A scanner: VendorAParser in excel_parser.py                  *)
(*                                                                         *)
(* A worksheet is [width, rows]: width is the number of columns of the     *)
(* DataFrame and each row is a function from the column indices (from 0)   *)
(* of its filled cells to their contents; every other cell is NaN.         *)
(* Chinese header texts are written in pinyin.                             *)
(***************************************************************************)
CellAt(row, c) == IF c \in DOMAIN row THEN row[c] ELSE NaN

\* texts containing the header marker "fanyingkong" (reaction well)
HeaderMarkerTexts == {"fanyingkong"}
\* texts containing one of the sample-name keywords of line 475
SampleHeaderTexts == {"yangben mingcheng"}

\* float(x) on the texts of the model: the texts that parse, with their value
NumericText == ("45" :> 45) @@ ("35" :> 35)

\* float(cell): ok is FALSE where Python raises ValueError
ParseFloat(cell) ==
    IF cell.t = "num" THEN [ok |-> TRUE, n |-> cell.n]
    ELSE IF cell.t = "str" /\ cell.s \in DOMAIN NumericText
         THEN [ok |-> TRUE, n |-> NumericText[cell.s]]
         ELSE [ok |-> FALSE, n |-> 0]

\* str(cell).strip()
ToText(cell) == IF cell.t = "str" THEN cell.s ELSE ToString(cell.n)

\* re.match(r'^[A-H][0-9]{1,2}$', s, re.IGNORECASE) on the texts of the
\* model, and s.upper() of the texts that match
WellUpper == ("A1" :> "A1") @@ ("a1" :> "A1") @@ ("B2" :> "B2") @@ ("b2" :> "B2")
              @@ ("A2" :> "A2")
MatchesWell(cell) == cell.t = "str" /\ cell.s \in DOMAIN WellUpper

HeaderSearchRows == 20
WellCol == 0
ChannelCol == 6
CtCol == 12
AmpStartCol == 39
AmpEndCol == 81
RawStartCol == 82
RawEndCol == 124
AmpValueLimit == 10000
RawValueLimit == 100000
ValueFloor == -100
CtLimit == 42
WellDataLookahead == 10

\* the header row taken to be the second row of the sheet, marker or not
HeaderRowOfSecond(sheet) == IF Len(sheet.rows) >= 2 THEN 2 ELSE 0

\* lines 458-463: the first of the leading rows holding the header marker, 0 if none
HeaderRowOf(sheet) ==
    LET cand == { i \in 1..Min(HeaderSearchRows, Len(sheet.rows)) :
                    \E c \in DOMAIN sheet.rows[i] :
                        sheet.rows[i][c].t = "str"
                           /\ sheet.rows[i][c].s \in HeaderMarkerTexts }
    IN  IF cand = {} THEN 0 ELSE CHOOSE i \in cand : \A j \in cand : i <= j

\* lines 472-477: the first header column holding a sample-name keyword, -1 if none
SampleNameColOf(header) ==
    LET cand == { c \in DOMAIN header :
                    header[c].t = "str" /\ header[c].s \in SampleHeaderTexts }
    IN  IF cand = {} THEN -1 ELSE CHOOSE c \in cand : \A d \in cand : c <= d

\* the window of columns searched for the start of the processed block
StartSearchFrom == 35
StartSearchTo == 45
\* the header texts that mark the column of cycle 1 (line 483)
FirstCycleTexts == {"1.0", "1.00"}

\* lines 479-503: data_start_col, the column found for the first cycle: the
\* first header cell of the window whose text is '1.0' or '1.00', else the
\* first cell of the window in the row below the header that parses to a
\* number in (-100, 10000), else 39
DataStartColOf(sheet, h) ==
    LET window == StartSearchFrom..(Min(StartSearchTo, sheet.width) - 1)
        marked == { c \in window : NotNa(CellAt(sheet.rows[h], c))
                                     /\ ToText(CellAt(sheet.rows[h], c)) \in FirstCycleTexts }
        below == IF h + 1 > Len(sheet.rows) THEN {}
                 ELSE { c \in window :
                          /\ NotNa(CellAt(sheet.rows[h + 1], c))
                          /\ ParseFloat(CellAt(sheet.rows[h + 1], c)).ok
                          /\ ValueFloor < ParseFloat(CellAt(sheet.rows[h + 1], c)).n
                          /\ ParseFloat(CellAt(sheet.rows[h + 1], c)).n < AmpValueLimit }
    IN  IF marked # {} THEN CHOOSE c \in marked : \A d \in marked : c <= d
        ELSE IF below # {} THEN CHOOSE c \in below : \A d \in below : c <= d
        ELSE AmpStartCol

\* lines 518-526 / 630-636: the well of a data row, "" when the cell does not match
RowWell(row) ==
    IF MatchesWell(CellAt(row, WellCol)) THEN WellUpper[CellAt(row, WellCol).s] ELSE ""

\* lines 539-543 with the 'Unknown' of lines 576 / 663
RowChannel(sheet, row) ==
    IF ChannelCol < sheet.width /\ NotNa(CellAt(row, ChannelCol))
          /\ ToText(CellAt(row, ChannelCol)) # ""
    THEN ToText(CellAt(row, ChannelCol))
    ELSE "Unknown"

\* lines 546-553: the Ct of a data row, NaN for None
RowCt(sheet, row) ==
    IF CtCol < sheet.width /\ NotNa(CellAt(row, CtCol))
          /\ ParseFloat(CellAt(row, CtCol)).ok
    THEN Num(ParseFloat(CellAt(row, CtCol)).n)
    ELSE NaN

\* lines 532-536: the sample name of a data row, NaN for None or ''
RowSampleName(sheet, row, sample_col) ==
    IF sample_col >= 0 /\ sample_col < sheet.width /\ NotNa(CellAt(row, sample_col))
          /\ ToText(CellAt(row, sample_col)) # ""
    THEN Str(ToText(CellAt(row, sample_col)))
    ELSE NaN

\* lines 562-591: the cells of one row from col_idx on
RECURSIVE AmpCellsOfRow(_, _, _, _, _)
AmpCellsOfRow(sheet, row, sample_col, col_idx, cycle_num) ==
    IF col_idx >= Min(AmpEndCol, sheet.width) THEN <<>>
    ELSE LET val == CellAt(row, col_idx)
             parsed == ParseFloat(val)
         IN  IF val = NaN \/ ~parsed.ok
             THEN AmpCellsOfRow(sheet, row, sample_col, col_idx + 1, cycle_num + 1)
             ELSE IF ValueFloor < parsed.n /\ parsed.n < AmpValueLimit
             THEN << [ Cycle |-> cycle_num, Well |-> RowWell(row),
                       Channel |-> RowChannel(sheet, row),
                       Amplification |-> Num(parsed.n),
                       Ct |-> IF cycle_num = 1 THEN RowCt(sheet, row) ELSE NaN,
                       SampleName |-> RowSampleName(sheet, row, sample_col) ] >>
                  \o AmpCellsOfRow(sheet, row, sample_col, col_idx + 1, cycle_num + 1)
             ELSE AmpCellsOfRow(sheet, row, sample_col, col_idx + 1, cycle_num)

\* lines 651-669
RECURSIVE RawCellsOfRow(_, _, _, _)
RawCellsOfRow(sheet, row, col_idx, cycle_num) ==
    IF col_idx >= Min(RawEndCol, sheet.width) THEN <<>>
    ELSE LET val == CellAt(row, col_idx)
             parsed == ParseFloat(val)
         IN  IF val = NaN \/ ~parsed.ok
             THEN RawCellsOfRow(sheet, row, col_idx + 1, cycle_num + 1)
             ELSE IF ValueFloor < parsed.n /\ parsed.n < RawValueLimit
             THEN << [ Cycle |-> cycle_num, Well |-> RowWell(row),
                       Channel |-> RowChannel(sheet, row),
                       RawValue |-> Num(parsed.n) ] >>
                  \o RawCellsOfRow(sheet, row, col_idx + 1, cycle_num + 1)
             ELSE RawCellsOfRow(sheet, row, col_idx + 1, cycle_num)

\* the loops over the data rows, from row idx on
RECURSIVE AmpRowsFrom(_, _, _)
AmpRowsFrom(sheet, sample_col, idx) ==
    IF idx > Len(sheet.rows) THEN <<>>
    ELSE (IF RowWell(sheet.rows[idx]) = "" THEN <<>>
          ELSE AmpCellsOfRow(sheet, sheet.rows[idx], sample_col, AmpStartCol, 1))
            \o AmpRowsFrom(sheet, sample_col, idx + 1)

RECURSIVE RawRowsFrom(_, _)
RawRowsFrom(sheet, idx) ==
    IF idx > Len(sheet.rows) THEN <<>>
    ELSE (IF RowWell(sheet.rows[idx]) = "" THEN <<>>
          ELSE RawCellsOfRow(sheet, sheet.rows[idx], RawStartCol, 1))
            \o RawRowsFrom(sheet, idx + 1)

\* VendorAParser.extract_amplification_data_from_exp
ExtractAmplificationDataFromExp(sheet) ==
    LET h == HeaderRowOf(sheet)
    IN  IF h = 0 THEN <<>>
        ELSE AmpRowsFrom(sheet, SampleNameColOf(sheet.rows[h]), h + 1)

\* VendorAParser.extract_raw_data_from_exp
ExtractRawDataFromExp(sheet) ==
    LET h == HeaderRowOf(sheet)
    IN  IF h = 0 THEN <<>> ELSE RawRowsFrom(sheet, h + 1)

\* lines 432-441: the first cell right of a well cell, within the lookahead,
\* that parses to a number in (0, 42]; NaN if none
WellDataCt(sheet, row, col_idx) ==
    LET cand == { c \in (col_idx + 1)..(Min(col_idx + WellDataLookahead, sheet.width) - 1) :
                    /\ NotNa(CellAt(row, c))
                    /\ ParseFloat(CellAt(row, c)).ok
                    /\ 0 < ParseFloat(CellAt(row, c)).n
                    /\ ParseFloat(CellAt(row, c)).n <= CtLimit }
    IN  IF cand = {} THEN NaN
        ELSE Num(ParseFloat(CellAt(row, CHOOSE c \in cand : \A d \in cand : c <= d)).n)

\* VendorAParser.extract_well_data: every cell of the sheet that looks like a
\* well name makes an entry; the last one met, row by row, stays
ExtractWellData(sheet) ==
    LET hits == { p \in (1..Len(sheet.rows)) \X (0..(sheet.width - 1)) :
                    p[2] \in DOMAIN sheet.rows[p[1]]
                       /\ MatchesWell(sheet.rows[p[1]][p[2]]) }
        NameOf(p) == WellUpper[sheet.rows[p[1]][p[2]].s]
        Later(p, q) == p[1] > q[1] \/ (p[1] = q[1] /\ p[2] >= q[2])
        LastOf(w) == CHOOSE p \in hits :
                        NameOf(p) = w /\ \A q \in hits : NameOf(q) = w => Later(p, q)
        InfoOf(w) == LET p == LastOf(w)
                         ct == WellDataCt(sheet, sheet.rows[p[1]], p[2])
                     IN  IF NotNa(ct) THEN [well |-> Str(w), ct |-> ct]
                         ELSE [well |-> Str(w)]
    IN  [w \in {NameOf(p) : p \in hits} |-> InfoOf(w)]

\* VendorAParser.parse on a workbook whose only sheet is the experiment-data sheet
ScanVendorA ==
    /\ vendor_type = "vendor_a"
    /\ pc.at = "scan"
    /\ parsed_data' = [ amplification_data |-> ExtractAmplificationDataFromExp(grid),
                        raw_data |-> ExtractRawDataFromExp(grid),
                        well_data |-> ExtractWellData(grid) ]
    /\ pc' = PcAt(parsed_data', "amp", 1)
    /\ UNCHANGED <<file, sheet_names, detected, vendor_type, grid, model, query, rows, ui>>

(***************************************************************************)
(* The vendor-7500 scanner: Vendor7500Parser in excel_parser.py            *)
(***************************************************************************)
\* a sheet the workbook does not hold (_sheet_exists is False)
AbsentSheet == [width |-> -1, rows |-> <<>>]

\* the texts of the model that contain 'Well', 'Cycle', 'Target Name'
TextsWithWell == {"Well", "Well Position"}
TextsWithCycle == {"Cycle"}
TextsWithTarget == {"Target Name"}

HeaderSearchRows7500 == 10
CtCol7500 == 6
DeltaRnCol == 4
RnCol == 3

\* '<needle>' in row_str, for the set S of texts containing the needle
RowHasText(row, S) == \E c \in DOMAIN row : row[c].t = "str" /\ row[c].s \in S

\* the first of the ten leading rows whose joined text holds both needles, 0 if none
HeaderRow7500(sheet, S1, S2) ==
    LET cand == { i \in 1..Min(HeaderSearchRows7500, Len(sheet.rows)) :
                    RowHasText(sheet.rows[i], S1) /\ RowHasText(sheet.rows[i], S2) }
    IN  IF cand = {} THEN 0 ELSE CHOOSE i \in cand : \A j \in cand : i <= j

\* the column index the header loop ends with for a name: the last cell whose
\* stripped text equals it, -1 for None
ColNamed(header, name) ==
    LET cand == { c \in DOMAIN header : ToText(header[c]) = name }
    IN  IF cand = {} THEN -1 ELSE CHOOSE c \in cand : \A d \in cand : c >= d

\* the well of a data row as the cell spells it
RowWell7500AsSpelled(sheet, row, well_col) ==
    IF well_col < sheet.width /\ MatchesWell(CellAt(row, well_col))
    THEN CellAt(row, well_col).s ELSE ""

\* the well of a data row: the upper-cased text of the cell when it matches
\* the plate pattern, "" otherwise
RowWell7500(sheet, row, well_col) ==
    IF well_col < sheet.width /\ MatchesWell(CellAt(row, well_col))
    THEN WellUpper[CellAt(row, well_col).s] ELSE ""

\* int(float(cell)) of the cycle cell, 0 when the cell is missing or does not parse
RowCycle7500(sheet, row, cycle_col) ==
    IF cycle_col < sheet.width /\ NotNa(CellAt(row, cycle_col))
          /\ ParseFloat(CellAt(row, cycle_col)).ok
    THEN ParseFloat(CellAt(row, cycle_col)).n ELSE 0

\* the parsed number of a value cell, NaN when missing or not a number
RowValue7500(sheet, row, col) ==
    IF col >= 0 /\ col < sheet.width /\ NotNa(CellAt(row, col))
          /\ ParseFloat(CellAt(row, col)).ok
    THEN Num(ParseFloat(CellAt(row, col)).n) ELSE NaN

\* the text of the target cell, "" when missing
RowTarget7500(sheet, row, target_col) ==
    IF target_col >= 0 /\ target_col < sheet.width /\ NotNa(CellAt(row, target_col))
    THEN ToText(CellAt(row, target_col)) ELSE ""

\* lines 817-820 and 1006-1009: the channel of a target on the Sample Setup
\* and Results sheets
FoldSetupTarget(target_name) ==
    IF target_name = "HEX" \/ target_name = "JOE" THEN "VIC" ELSE target_name

\* lines 909-912 and 1097-1102: the channel of a target on the curve sheets
FoldCurveTarget(target_name) ==
    IF target_name = "JOE" THEN "VIC" ELSE target_name

\* lines 808-839: the well map after the data rows from idx on
RECURSIVE SetupRowsFrom(_, _, _, _, _, _)
SetupRowsFrom(sheet, well_col, target_col, sample_col, idx, well_data) ==
    IF idx > Len(sheet.rows) THEN well_data
    ELSE LET row == sheet.rows[idx]
             well_name == RowWell7500(sheet, row, well_col)
             target_name == RowTarget7500(sheet, row, target_col)
             channel_name == FoldSetupTarget(target_name)
             sample_name == RowSampleName(sheet, row, sample_col)
             e0 == IF well_name \in DOMAIN well_data THEN well_data[well_name]
                   ELSE EmptyDict
             listed == IF "channels" \in DOMAIN e0 THEN e0["channels"].v ELSE <<>>
             e1 == DictSet(e0, "channels",
                           [t |-> "list",
                            v |-> IF channel_name \in Range(listed) THEN listed
                                  ELSE Append(listed, channel_name)])
             e2 == IF NotNa(sample_name) /\ "sample_name" \notin DOMAIN e1
                   THEN DictSet(e1, "sample_name", sample_name) ELSE e1
             next == IF well_name = ""
                        \/ ~(target_col < sheet.width /\ NotNa(CellAt(row, target_col)))
                     THEN well_data
                     ELSE DictSet(well_data, well_name, e2)
         IN  SetupRowsFrom(sheet, well_col, target_col, sample_col, idx + 1, next)

\* Vendor7500Parser.extract_well_data_from_setup
ExtractWellDataFromSetup(sheet) ==
    LET h == HeaderRow7500(sheet, TextsWithWell, TextsWithTarget)
        well_col == ColNamed(sheet.rows[h], "Well")
        target_col == ColNamed(sheet.rows[h], "Target Name")
    IN  IF h = 0 THEN EmptyDict
        ELSE IF well_col = -1 \/ target_col = -1 THEN EmptyDict
        ELSE SetupRowsFrom(sheet, well_col, target_col,
                           ColNamed(sheet.rows[h], "Sample Name"), h + 1, EmptyDict)

\* the texts line 1015 takes for "no Ct" (compared upper-cased)
SentinelTexts == {"Undetermined", "undetermined", "N/A", "N", "NA", ""}

\* lines 990-1028: the Ct map after the data rows from idx on
RECURSIVE ResultsRowsFrom(_, _, _, _, _)
ResultsRowsFrom(sheet, well_col, target_col, idx, ct_data) ==
    IF idx > Len(sheet.rows) THEN ct_data
    ELSE LET row == sheet.rows[idx]
             well_name == RowWell7500(sheet, row, well_col)
             target_name == RowTarget7500(sheet, row, target_col)
             channel_name == FoldSetupTarget(target_name)
             ct_val == CellAt(row, CtCol7500)
             ct_value == RowValue7500(sheet, row, CtCol7500)
             e0 == IF well_name \in DOMAIN ct_data THEN ct_data[well_name] ELSE EmptyDict
             next == IF \/ well_name = ""
                        \/ ~(target_col < sheet.width /\ NotNa(CellAt(row, target_col)))
                        \/ (ct_val.t = "str" /\ ct_val.s \in SentinelTexts)
                        \/ ct_value = NaN
                        \/ ~(0 < ct_value.n /\ ct_value.n <= CtLimit)
                     THEN ct_data
                     ELSE DictSet(ct_data, well_name, DictSet(e0, channel_name, ct_value))
         IN  ResultsRowsFrom(sheet, well_col, target_col, idx + 1, next)

\* Vendor7500Parser.extract_ct_from_results
ExtractCtFromResults(sheet) ==
    LET h == HeaderRow7500(sheet, TextsWithWell, TextsWithTarget)
        well_col == ColNamed(sheet.rows[h], "Well")
        target_col == ColNamed(sheet.rows[h], "Target Name")
    IN  IF h = 0 THEN EmptyDict
        ELSE IF ~(sheet.width > CtCol7500) THEN EmptyDict
        ELSE IF well_col = -1 \/ target_col = -1 THEN EmptyDict
        ELSE ResultsRowsFrom(sheet, well_col, target_col, h + 1, EmptyDict)

\* lines 1067-1116: the curve rows of the Multicomponent Data sheet from row idx on
RECURSIVE MultiAmpRowsFrom(_, _, _, _, _)
MultiAmpRowsFrom(sheet, well_col, cycle_col, target_col, idx) ==
    IF idx > Len(sheet.rows) THEN <<>>
    ELSE LET row == sheet.rows[idx]
             well_name == RowWell7500(sheet, row, well_col)
             cycle == RowCycle7500(sheet, row, cycle_col)
             has_cycle == cycle_col < sheet.width /\ NotNa(CellAt(row, cycle_col))
                             /\ ParseFloat(CellAt(row, cycle_col)).ok
             has_target == target_col < sheet.width /\ NotNa(CellAt(row, target_col))
             value == RowValue7500(sheet, row, DeltaRnCol)
         IN  (IF well_name = "" \/ ~has_cycle \/ ~has_target \/ value = NaN THEN <<>>
              ELSE << [ Cycle |-> cycle, Well |-> well_name,
                        Channel |-> FoldCurveTarget(RowTarget7500(sheet, row, target_col)),
                        Amplification |-> value ] >>)
                \o MultiAmpRowsFrom(sheet, well_col, cycle_col, target_col, idx + 1)

\* Vendor7500Parser.extract_amplification_data_from_multicomponent
ExtractAmplificationDataFromMulticomponent(sheet) ==
    LET h == HeaderRow7500(sheet, TextsWithWell, TextsWithCycle)
        well_col == ColNamed(sheet.rows[h], "Well")
        cycle_col == ColNamed(sheet.rows[h], "Cycle")
        target_col == ColNamed(sheet.rows[h], "Target Name")
    IN  IF h = 0 THEN <<>>
        ELSE IF well_col = -1 \/ cycle_col = -1 \/ target_col = -1 THEN <<>>
        ELSE MultiAmpRowsFrom(sheet, well_col, cycle_col, target_col, h + 1)

\* line 1155: the header texts taken for dye columns
DyeHeaders == {"FAM", "JOE", "CY5", "ROX", "VIC", "HEX"}

\* lines 1148-1163: channel_cols, as the channel names in insertion order and
\* the column each ends with
ChannelNamesOf(header) ==
    LET dyed == { c \in DOMAIN header : ToText(header[c]) \in DyeHeaders }
        NameAt(c) == FoldCurveTarget(ToText(header[c]))
        firsts == { c \in dyed : \A d \in dyed : NameAt(d) = NameAt(c) => c <= d }
    IN  [ i \in 1..Cardinality(firsts) |->
            NameAt(CHOOSE c \in firsts : Cardinality({d \in firsts : d < c}) = i - 1) ]

ChannelColOf(header, name) ==
    LET cand == { c \in DOMAIN header : ToText(header[c]) \in DyeHeaders
                                          /\ FoldCurveTarget(ToText(header[c])) = name }
    IN  CHOOSE c \in cand : \A d \in cand : c >= d

\* lines 1211-1221: the first channel, in insertion order, whose column holds
\* a number in this row; "" if none
RowDyeChannel(sheet, row, header) ==
    LET names == ChannelNamesOf(header)
        hits == { i \in 1..Len(names) :
                    RowValue7500(sheet, row, ChannelColOf(header, names[i])) # NaN }
    IN  IF hits = {} THEN "" ELSE names[CHOOSE i \in hits : \A j \in hits : i <= j]

\* lines 1173-1233: the raw rows of the Multicomponent Data sheet from row idx on
RECURSIVE MultiRawRowsFrom(_, _, _, _, _)
MultiRawRowsFrom(sheet, well_col, cycle_col, header, idx) ==
    IF idx > Len(sheet.rows) THEN <<>>
    ELSE LET row == sheet.rows[idx]
             well_name == RowWell7500(sheet, row, well_col)
             has_cycle == cycle_col < sheet.width /\ NotNa(CellAt(row, cycle_col))
                             /\ ParseFloat(CellAt(row, cycle_col)).ok
             value == RowValue7500(sheet, row, RnCol)
             channel_name == RowDyeChannel(sheet, row, header)
         IN  (IF well_name = "" \/ ~has_cycle \/ value = NaN \/ channel_name = ""
              THEN <<>>
              ELSE << [ Cycle |-> RowCycle7500(sheet, row, cycle_col), Well |-> well_name,
                        Channel |-> channel_name, RawValue |-> value ] >>)
                \o MultiRawRowsFrom(sheet, well_col, cycle_col, header, idx + 1)

\* Vendor7500Parser.extract_raw_data_from_multicomponent
ExtractRawDataFromMulticomponent(sheet) ==
    LET h == HeaderRow7500(sheet, TextsWithWell, TextsWithCycle)
        well_col == ColNamed(sheet.rows[h], "Well")
        cycle_col == ColNamed(sheet.rows[h], "Cycle")
    IN  IF h = 0 THEN <<>>
        ELSE IF well_col = -1 \/ cycle_col = -1 \/ ChannelNamesOf(sheet.rows[h]) = <<>>
        THEN <<>>
        ELSE MultiRawRowsFrom(sheet, well_col, cycle_col, sheet.rows[h], h + 1)

\* the header texts line 875 takes for the delta-Rn column
DeltaRnTexts == {"Delta Rn", "dRn"}

\* lines 884-936: the curve rows of the Amplification Data sheet from row idx on
RECURSIVE AmpDataRowsFrom(_, _, _, _, _, _, _)
AmpDataRowsFrom(sheet, well_col, cycle_col, target_col, rn_col, delta_rn_col, idx) ==
    IF idx > Len(sheet.rows) THEN <<>>
    ELSE LET row == sheet.rows[idx]
             well_name == RowWell7500(sheet, row, well_col)
             has_cycle == cycle_col < sheet.width /\ NotNa(CellAt(row, cycle_col))
                             /\ ParseFloat(CellAt(row, cycle_col)).ok
             channel_name == FoldCurveTarget(RowTarget7500(sheet, row, target_col))
             delta == RowValue7500(sheet, row, delta_rn_col)
             amp_value == IF delta # NaN THEN delta ELSE RowValue7500(sheet, row, rn_col)
         IN  (IF well_name = "" \/ ~has_cycle \/ channel_name = "" \/ amp_value = NaN
              THEN <<>>
              ELSE << [ Cycle |-> RowCycle7500(sheet, row, cycle_col), Well |-> well_name,
                        Channel |-> channel_name, Amplification |-> amp_value ] >>)
                \o AmpDataRowsFrom(sheet, well_col, cycle_col, target_col, rn_col,
                                   delta_rn_col, idx + 1)

\* Vendor7500Parser.extract_amplification_data
ExtractAmplificationData7500(sheet) ==
    LET h == HeaderRow7500(sheet, TextsWithWell, TextsWithCycle)
        header == sheet.rows[h]
        well_col == ColNamed(header, "Well")
        cycle_col == ColNamed(header, "Cycle")
        deltas == { c \in DOMAIN header : ToText(header[c]) \in DeltaRnTexts }
        delta_rn_col == IF deltas = {} THEN -1
                        ELSE CHOOSE c \in deltas : \A d \in deltas : c >= d
    IN  IF h = 0 THEN <<>>
        ELSE IF well_col = -1 \/ cycle_col = -1 THEN <<>>
        ELSE AmpDataRowsFrom(sheet, well_col, cycle_col, ColNamed(header, "Target Name"),
                             ColNamed(header, "Rn"), delta_rn_col, h + 1)

\* Vendor7500Parser.extract_raw_data: the loop over the data rows appends
\* nothing, so the table is empty whatever the sheet holds
ExtractRawData7500(sheet) == <<>>

\* lines 721-728: the Ct maps of the Results sheet merged into the well map
MergeCt(well_data, ct_data) ==
    [ w \in (DOMAIN well_data) \cup (DOMAIN ct_data) |->
        IF w \notin DOMAIN ct_data THEN well_data[w]
        ELSE IF w \notin DOMAIN well_data THEN ct_data[w]
        ELSE ct_data[w] @@ well_data[w] ]

\* Vendor7500Parser.parse on a workbook holding the sheets of book
Parse7500(book) ==
    LET well_data0 == IF book.setup # AbsentSheet
                      THEN ExtractWellDataFromSetup(book.setup) ELSE EmptyDict
        amp0 == IF book.multi # AbsentSheet
                THEN ExtractAmplificationDataFromMulticomponent(book.multi) ELSE <<>>
        raw0 == IF book.multi # AbsentSheet
                THEN ExtractRawDataFromMulticomponent(book.multi) ELSE <<>>
        amp1 == IF amp0 = <<>> /\ book.amp # AbsentSheet
                THEN ExtractAmplificationData7500(book.amp) ELSE amp0
        well_data1 == IF book.results # AbsentSheet
                      THEN MergeCt(well_data0, ExtractCtFromResults(book.results))
                      ELSE well_data0
        raw1 == IF raw0 = <<>> /\ book.raw # AbsentSheet
                THEN ExtractRawData7500(book.raw) ELSE raw0
    IN  [amplification_data |-> amp1, raw_data |-> raw1, well_data |-> well_data1]

Scan7500 ==
    /\ vendor_type = "vendor_7500"
    /\ pc.at = "scan"
    /\ parsed_data' = Parse7500(grid)
    /\ pc' = PcAt(parsed_data', "amp", 1)
    /\ UNCHANGED <<file, sheet_names, detected, vendor_type, grid, model, query, rows, ui>>

(***************************************************************************)
(* SpecScanA: a vendor-A sheet scanned and converted                       *)
(***************************************************************************)
MaxGridRows == 2

\* the Ct cells of the sheets: missing, a sentinel text, numbers in and out of range
ScanCtCells == {NaN, Str("Undetermined"), Num(30), Num(45), Num(0)}

\* a data row: well, sample name (column 2, under its header), channel, Ct, and the first two cells of the
\* processed block; a NaN cell is left out of the row.  The scanner reads
\* each row on its own, so the first data row ranges over every kind of cell
\* and the later rows over the cells that meet it in the converter: same
\* well, either channel, with or without a Ct and a sample name.
ScanDataRows(i) ==
    { LET cells == (WellCol :> w) @@ (2 :> sn) @@ (ChannelCol :> Str(ch))
                     @@ (CtCol :> ct) @@ (AmpStartCol :> v1) @@ ((AmpStartCol + 1) :> v2)
      IN  [c \in {d \in DOMAIN cells : cells[d] # NaN} |-> cells[c]] :
      w \in (IF i = 1 THEN {Str("A1"), Str("Z9")} ELSE {Str("A1")}),
      sn \in {NaN, Str(IF i = 1 THEN "S1" ELSE "S2")},
      ch \in {"FAM", "VIC"},
      ct \in (IF i = 1 THEN ScanCtCells ELSE {NaN, Num(45)}),
      v1 \in (IF i = 1 THEN {NaN, Num(11)} ELSE {Num(10 * i + 1)}),
      v2 \in (IF i = 1 THEN {NaN, Num(12)} ELSE {NaN}) }

RECURSIVE ScanRowSeqs(_)
ScanRowSeqs(n) ==
    IF n = 0 THEN {<<>>}
    ELSE {Append(t, r) : t \in ScanRowSeqs(n - 1), r \in ScanDataRows(n)}

ScanHeaderRow ==
    (WellCol :> Str("fanyingkong")) @@ (2 :> Str("yangben mingcheng"))
       @@ (CtCol :> Str("Ct"))

\* the sheets: a title row, the header row (or a row without the marker),
\* then the data rows; 41 columns, so that each row holds two processed cells
ScanSheets ==
    { [ width |-> AmpStartCol + 2,
        rows |-> << (0 :> Str("title")), h >> \o rs ] :
      h \in {ScanHeaderRow, (WellCol :> Str("no header"))},
      rs \in UNION {ScanRowSeqs(n) : n \in 0..MaxGridRows} }

\* sheets whose processed block has drifted: the header marks the column of
\* cycle 1 at, before or after column 39 (or not at all), and the one data
\* row holds values around column 39; a value tells its column, or is out of
\* the accepted range
DriftSheets ==
    { [ width |-> AmpStartCol + 2,
        rows |-> << (0 :> Str("title")),
                    ScanHeaderRow @@ [x \in m |-> Str("1.0")],
                    LET cells == (WellCol :> Str("A1")) @@ (ChannelCol :> Str("FAM"))
                                   @@ ((AmpStartCol - 1) :> a) @@ (AmpStartCol :> b)
                                   @@ ((AmpStartCol + 1) :> c)
                    IN  [y \in {d \in DOMAIN cells : cells[d] # NaN} |-> cells[y]] >> ] :
      m \in {{}, {AmpStartCol - 1}, {AmpStartCol}, {AmpStartCol + 1}},
      a \in {NaN, Num(AmpStartCol - 1)},
      b \in {NaN, Num(AmpStartCol), Num(AmpValueLimit)},
      c \in {NaN, Num(AmpStartCol + 1)} }

InitScanA ==
    /\ file = [ext |-> ".xlsx", xlrd_ok |-> FALSE, openpyxl_ok |-> TRUE, sheets |-> <<>>]
    /\ sheet_names = <<>>
    /\ detected = "pending"
    /\ vendor_type = "vendor_a"
    /\ grid \in ScanSheets \cup DriftSheets
    /\ parsed_data = EmptyParsed
    /\ model = EmptyModel
    /\ pc = [at |-> "scan", i |-> 0]
    /\ query = NoQuery
    /\ rows = <<>>
    /\ ui = NoUi

NextScanA ==
    \/ ScanVendorA
    \/ ConvertAmpGroupA

SpecScanA == InitScanA /\ [][NextScanA]_vars

(***************************************************************************)
(* SpecScanRaw: a vendor-A sheet with one full-width data row (42 raw      *)
(* cells, with or without the 42 processed cells), scanned and converted   *)
(***************************************************************************)
MaxGaps == 1

\* the cells of one block of a data row: a number in every column of the
\* block but those of gaps, which hold the text of the gap or nothing
BlockCells(first, last, gaps) ==
    [c \in {d \in first..(last - 1) : d \notin DOMAIN gaps \/ gaps[d] # NaN} |->
        IF c \in DOMAIN gaps THEN gaps[c] ELSE Num(100 + c)]

\* the gaps of a block: at most MaxGaps columns, each empty or holding a text,
\* the first column of the block also a number out of the accepted range
RECURSIVE GapsUpTo(_, _, _)
GapsUpTo(first, last, n) ==
    IF n = 0 THEN {<<>>}
    ELSE LET less == GapsUpTo(first, last, n - 1)
         IN  less \cup { g @@ (c :> v) : g \in less, c \in first..(last - 1),
                                         v \in {NaN, Str("x")} }
                  \cup { g @@ (first :> Num(RawValueLimit)) : g \in less }

GapsIn(first, last) == GapsUpTo(first, last, MaxGaps)

RawSheets ==
    { [ width |-> RawEndCol,
        rows |-> << ScanHeaderRow,
                    (WellCol :> Str("A1")) @@ (ChannelCol :> Str("FAM"))
                       @@ amp @@ BlockCells(RawStartCol, RawEndCol, gaps) >> ] :
      amp \in {<<>>, BlockCells(AmpStartCol, AmpEndCol, <<>>)},
      gaps \in GapsIn(RawStartCol, RawEndCol) }

InitScanRaw ==
    /\ file = [ext |-> ".xlsx", xlrd_ok |-> FALSE, openpyxl_ok |-> TRUE, sheets |-> <<>>]
    /\ sheet_names = <<>>
    /\ detected = "pending"
    /\ vendor_type = "vendor_a"
    /\ grid \in RawSheets
    /\ parsed_data = EmptyParsed
    /\ model = EmptyModel
    /\ pc = [at |-> "scan", i |-> 0]
    /\ query = NoQuery
    /\ rows = <<>>
    /\ ui = NoUi

NextScanRaw ==
    \/ ScanVendorA
    \/ ConvertAmpGroupA
    \/ ConvertRawGroupA

SpecScanRaw == InitScanRaw /\ [][NextScanRaw]_vars

(***************************************************************************)
(* SpecScan7500: a 7500 workbook scanned and converted.  One sheet of the  *)
(* workbook ranges over headers and cells of every kind; the other sheets  *)
(* are absent, or all sheets hold one plain data row.                      *)
(***************************************************************************)
MaxBookRows == 2

\* a row without its NaN cells
Filled(cells) == [c \in {d \in DOMAIN cells : cells[d] # NaN} |-> cells[c]]

\* sequences of n data rows, row i drawn from RowsAt[i]
RECURSIVE RowSeqsOf(_, _)
RowSeqsOf(RowsAt, n) ==
    IF n = 0 THEN {<<>>}
    ELSE {Append(t, r) : t \in RowSeqsOf(RowsAt, n - 1), r \in RowsAt[n]}

\* the sheets made of one of the headers and up to n of the data rows
SheetsOf(width, headers, RowsAt, n) ==
    { [width |-> width, rows |-> <<(0 :> Str("title")), h>> \o rs] :
      h \in headers, rs \in UNION {RowSeqsOf(RowsAt, k) : k \in 0..n} }

WellCells(i) == IF i = 1 THEN {Str("A1"), Str("a1"), Str("Z9")} ELSE {Str("A1")}

SetupHeaders ==
    { (0 :> Str("Well")) @@ (1 :> Str("Sample Name")) @@ (2 :> Str("Target Name")),
      (0 :> Str("Well Position")) @@ (1 :> Str("Sample Name")) @@ (2 :> Str("Target Name")),
      (0 :> Str("Well")) @@ (1 :> Str("Sample Name")) }

SetupDataRows ==
    [ i \in 1..(MaxBookRows + 1) |->
        { Filled((0 :> w) @@ (1 :> sn) @@ (2 :> Str(t))) :
          w \in WellCells(i) \cup {Str("Z9")}, sn \in {NaN, Str(IF i = 1 THEN "S1" ELSE "S2")},
          t \in {"FAM", "HEX", "JOE"} } ]

SetupSheets == SheetsOf(3, SetupHeaders, SetupDataRows, MaxBookRows)

ResultsHeaders ==
    { (0 :> Str("Well")) @@ (2 :> Str("Target Name")) @@ (CtCol7500 :> Str("CT")),
      (0 :> Str("Well")) @@ (CtCol7500 :> Str("CT")) }

ResultsDataRows ==
    [ i \in 1..(MaxBookRows + 1) |->
        { Filled((0 :> w) @@ (2 :> Str(t)) @@ (CtCol7500 :> ct)) :
          w \in WellCells(i), t \in {"FAM", "HEX", "JOE"},
          ct \in (IF i = 1 THEN {NaN, Str("Undetermined"), Num(25), Num(45)}
                  ELSE {Num(26)}) } ]

\* Results sheets of seven columns, and of six: without the Ct column
ResultsSheets ==
    SheetsOf(CtCol7500 + 1, ResultsHeaders, ResultsDataRows, MaxBookRows)
       \cup SheetsOf(CtCol7500, {(0 :> Str("Well")) @@ (2 :> Str("Target Name"))},
                     [i \in 1..(MaxBookRows + 1) |->
                         {(0 :> Str("A1")) @@ (2 :> Str("FAM"))}], 1)

MultiHeaders ==
    { Filled((0 :> Str("Well")) @@ (1 :> Str("Cycle")) @@ (2 :> t)
               @@ (RnCol :> Str("Rn")) @@ (DeltaRnCol :> Str("Delta Rn")) @@ (5 :> d)) :
      t \in {Str("Target Name"), NaN}, d \in {Str("JOE"), NaN} }
       \cup { (0 :> Str("Sample")) @@ (1 :> Str("Cycle")) }

MultiDataRows ==
    [ i \in 1..(MaxBookRows + 1) |->
        { Filled((0 :> w) @@ (1 :> cy) @@ (2 :> Str(t)) @@ (RnCol :> Num(500 + i))
                   @@ (DeltaRnCol :> dv) @@ (5 :> jv)) :
          w \in WellCells(i), cy \in (IF i = 1 THEN {Num(1), Str("x")} ELSE {Num(i)}),
          t \in {"FAM", "HEX", "JOE"},
          dv \in (IF i = 1 THEN {Num(10), NaN} ELSE {Num(10 * i)}),
          jv \in (IF i = 1 THEN {Num(7), NaN} ELSE {Num(7)}) } ]

MultiSheets == SheetsOf(6, MultiHeaders, MultiDataRows, MaxBookRows)

AmpDataHeaders ==
    { Filled((0 :> Str("Well")) @@ (1 :> Str("Cycle")) @@ (2 :> t)
               @@ (3 :> Str("Rn")) @@ (4 :> d)) :
      t \in {Str("Target Name"), NaN}, d \in {Str("Delta Rn"), NaN} }

AmpDataRows ==
    [ i \in 1..(MaxBookRows + 1) |->
        { Filled((0 :> w) @@ (1 :> Num(i)) @@ (2 :> Str(t)) @@ (3 :> Num(500 + i))
                   @@ (4 :> dv)) :
          w \in WellCells(i), t \in {"FAM", "HEX", "JOE"},
          dv \in (IF i = 1 THEN {Num(10), Str("x"), NaN} ELSE {Num(10 * i)}) } ]

AmpDataSheets == SheetsOf(5, AmpDataHeaders, AmpDataRows, MaxBookRows)

\* a Raw Data sheet with a header and one data row
RawDataSheet ==
    [ width |-> 3,
      rows |-> << (0 :> Str("Well")) @@ (1 :> Str("Cycle")) @@ (2 :> Str("FAM")),
                  (0 :> Str("A1")) @@ (1 :> Num(1)) @@ (2 :> Num(900)) >> ]

NoBook ==
    [ setup |-> AbsentSheet, multi |-> AbsentSheet, amp |-> AbsentSheet,
      results |-> AbsentSheet, raw |-> AbsentSheet ]

\* a workbook whose sheets all hold one plain data row
PlainBooks ==
    { [ setup |-> su, multi |-> mu, amp |-> AbsentSheet, results |-> re, raw |-> AbsentSheet ] :
      su \in { [width |-> 3, rows |-> <<h, r>>] :
               h \in {(0 :> Str("Well")) @@ (1 :> Str("Sample Name")) @@ (2 :> Str("Target Name"))},
               r \in SetupDataRows[2] },
      mu \in { [width |-> 6, rows |-> <<h, r>>] :
               h \in {(0 :> Str("Well")) @@ (1 :> Str("Cycle")) @@ (2 :> Str("Target Name"))
                        @@ (5 :> Str("JOE"))},
               r \in MultiDataRows[2] },
      re \in { [width |-> CtCol7500 + 1, rows |-> <<h, r>>] :
               h \in {(0 :> Str("Well")) @@ (2 :> Str("Target Name"))},
               r \in ResultsDataRows[2] } }

Books7500 ==
    { [NoBook EXCEPT !.setup = x] : x \in SetupSheets }
       \cup { [NoBook EXCEPT !.results = x] : x \in ResultsSheets }
       \cup { [NoBook EXCEPT !.multi = x] : x \in MultiSheets }
       \cup { [NoBook EXCEPT !.amp = x, !.raw = y] :
              x \in AmpDataSheets, y \in {AbsentSheet, RawDataSheet} }
       \cup PlainBooks

InitScan7500 ==
    /\ file = [ext |-> ".xlsx", xlrd_ok |-> FALSE, openpyxl_ok |-> TRUE, sheets |-> <<>>]
    /\ sheet_names = <<>>
    /\ detected = "pending"
    /\ vendor_type = "vendor_7500"
    /\ grid \in Books7500
    /\ parsed_data = EmptyParsed
    /\ model = EmptyModel
    /\ pc = [at |-> "scan", i |-> 0]
    /\ query = NoQuery
    /\ rows = <<>>
    /\ ui = NoUi

NextScan7500 ==
    \/ Scan7500
    \/ ConvertAmpGroup7500
    \/ ConvertRawGroup7500

SpecScan7500 == InitScan7500 /\ [][NextScan7500]_vars

(***************************************************************************)
(* SpecScan: either scanner, then its converter                            *)
(***************************************************************************)
InitScan == InitScanA \/ InitScanRaw \/ InitScan7500

NextScan ==
    \/ ScanVendorA
    \/ Scan7500
    \/ ConvertAmpGroupA
    \/ ConvertRawGroupA
    \/ ConvertAmpGroup7500
    \/ ConvertRawGroup7500

SpecScan == InitScan /\ [][NextScan]_vars

(***************************************************************************)
(* SpecRoundTrip: a table holding A1/FAM at cycles 1..N, one row per       *)
(* cycle in any row order, converted and queried                           *)
(***************************************************************************)
MaxRoundTrip == 3
RoundTripValues == {Num(7), Num(9)}

RoundTripTables ==
    UNION { { [ i \in 1..n |->
                  [ Cycle |-> p[i], Well |-> "A1", Channel |-> "FAM",
                    Amplification |-> v[p[i]], Ct |-> NaN, SampleName |-> NaN ] ] :
              p \in {q \in [1..n -> 1..n] : \A i, j \in 1..n : i # j => q[i] # q[j]},
              v \in [1..n -> RoundTripValues] }
            : n \in 1..MaxRoundTrip }

\* rows of another well that may share the table
RoundTripOthers ==
    { <<>>,
      << [ Cycle |-> 1, Well |-> "B2", Channel |-> "FAM", Amplification |-> Num(5),
           Ct |-> NaN, SampleName |-> NaN ] >> }

InitRoundTrip ==
    /\ file = [ext |-> ".xlsx", xlrd_ok |-> FALSE, openpyxl_ok |-> TRUE, sheets |-> <<>>]
    /\ sheet_names = <<>>
    /\ detected = "pending"
    /\ vendor_type \in {"vendor_a", "vendor_7500"}
    /\ grid = <<>>
    /\ \E t \in RoundTripTables, o \in RoundTripOthers :
          parsed_data = [amplification_data |-> o \o t, raw_data |-> <<>>,
                         well_data |-> WellDataOf(vendor_type)]
    /\ model = EmptyModel
    /\ pc = PcAt(parsed_data, "amp", 1)
    /\ query = NoQuery
    /\ rows = <<>>
    /\ ui = NoUi

NextRoundTrip ==
    \/ ConvertAmpGroupA
    \/ ConvertAmpGroup7500
    \/ QueryConverted

SpecRoundTrip == InitRoundTrip /\ [][NextRoundTrip]_vars

(***************************************************************************)
(* SpecUI: PCRAnalyzerApp.open_file and the handlers that select wells and *)
(* projects (pcr_analyzer.py, plate_selector.py)                           *)
(*                                                                         *)
(* A file is known by its id.  Data derived from a file is known by the id *)
(* of that file: parsed_data and data_model hold the id of the file they   *)
(* were built from, the per-well maps hold it for every well of the file,  *)
(* and a selected well holds the id of the file shown when it was clicked. *)
(* calls counts the invocations open_file has made for the current file.   *)
(***************************************************************************)
MaxFiles == 2
UiFiles == 1..MaxFiles
PlateWells == {"A1", "B2"}
UiProjects == {"P1", "P2"}

\* the wells of the model convert() builds from a file
UiFileWells(f) == IF f = 1 THEN {"A1", "B2"} ELSE {"A1"}

\* how open_file's try block ends: an exception leaves detect_vendor inside
\* ExcelParser.parse, the vendor parser, or convert_data; or none does
OpenOutcomes == {"detect_raises", "scan_raises", "convert_raises", "ok"}

\* PCRAnalyzerApp.clear_all_state
ClearAllState(u) ==
    [ u EXCEPT !.selected_wells = <<>>, !.plate_well_data = <<>>,
               !.selected_projects = {}, !.parsed_data = 0, !.data_model = 0,
               !.well_data_map = <<>> ]

\* PCRAnalyzerApp.update_plate_data, with PlateSelector.set_well_data
UpdatePlateData(u) ==
    IF u.data_model = 0 THEN u
    ELSE LET wells == UiFileWells(u.data_model)
         IN  [ u EXCEPT !.well_data_map = [w \in wells |-> u.data_model],
                        !.plate_well_data =
                            [w \in wells \cap PlateWells |-> u.data_model] @@ @ ]

\* ExcelParser.parse: detect_vendor, then the vendor parser
ParseFile(u, f, outcome) ==
    LET u1 == [u EXCEPT !.calls.detect = @ + 1]
    IN  IF outcome = "detect_raises" THEN u1
        ELSE LET u2 == [u1 EXCEPT !.calls.scan = @ + 1]
             IN  IF outcome = "scan_raises" THEN u2 ELSE [u2 EXCEPT !.parsed_data = f]

\* lines 676-723: the try block of open_file
TryOpen(u, f, outcome) ==
    LET u1 == ParseFile(u, f, outcome)
    IN  IF outcome \in {"detect_raises", "scan_raises"} THEN u1
        ELSE LET u2 == [u1 EXCEPT !.calls.detect = @ + 1, !.calls.convert = @ + 1]
             IN  IF outcome = "convert_raises" THEN u2
                 ELSE UpdatePlateData([u2 EXCEPT !.data_model = f])

\* PCRAnalyzerApp.open_file with a file chosen in the dialog
OpenFile ==
    /\ \E f \in UiFiles, outcome \in OpenOutcomes :
          ui' = TryOpen([ClearAllState(ui) EXCEPT
                            !.current_file = f,
                            !.calls = [detect |-> 0, scan |-> 0, convert |-> 0]],
                        f, outcome)
    /\ UNCHANGED <<file, sheet_names, detected, vendor_type, grid, parsed_data, model, pc,
                   query, rows>>

\* PlateSelector.on_well_clicked
OnWellClicked ==
    /\ \E w \in PlateWells, checked \in BOOLEAN :
          ui' = [ui EXCEPT !.selected_wells =
                    IF checked THEN (w :> ui.current_file) @@ @
                    ELSE [x \in (DOMAIN @) \ {w} |-> @[x]]]
    /\ UNCHANGED <<file, sheet_names, detected, vendor_type, grid, parsed_data, model, pc,
                   query, rows>>

\* PCRAnalyzerApp.on_project_changed
OnProjectChanged ==
    /\ \E S \in SUBSET UiProjects : ui' = [ui EXCEPT !.selected_projects = S]
    /\ UNCHANGED <<file, sheet_names, detected, vendor_type, grid, parsed_data, model, pc,
                   query, rows>>

InitUI ==
    /\ file = [ext |-> ".xlsx", xlrd_ok |-> FALSE, openpyxl_ok |-> TRUE, sheets |-> <<>>]
    /\ sheet_names = <<>>
    /\ detected = "pending"
    /\ vendor_type = "default"
    /\ grid = <<>>
    /\ parsed_data = EmptyParsed
    /\ model = EmptyModel
    /\ pc = [at |-> "idle", i |-> 0]
    /\ query = NoQuery
    /\ rows = <<>>
    /\ ui = NoUi

NextUI == OpenFile \/ OnWellClicked \/ OnProjectChanged

SpecUI == InitUI /\ [][NextUI]_vars

(***************************************************************************)
(* Claims about format detection                                           *)
(***************************************************************************)
Returned == detected \notin {"pending", "raised"}

Sig7500(S) ==
    \/ (SampleSetup \in S /\ Results \in S)
    \/ (AmplificationData \in S /\ Results \in S /\ RawData \in S)

SigVendorA(S) == \E n \in S : Contains(n, MarkerExp) \/ Contains(n, MarkerCurve)

\* C7: detect_vendor returns the 7500 tag if and only if the sheet-name list
\* holds both Sample Setup and Results, or all of Amplification Data, Results
\* and Raw Data; sheets {Sample Setup, Multicomponent Data, Results} give 7500.
ThmDetect7500Signature ==
    Returned =>
        /\ (detected = "vendor_7500" <=> Sig7500(Range(sheet_names)))
        /\ (Range(sheet_names) = {SampleSetup, MulticomponentData, Results}
                => detected = "vendor_7500")

WitDetect7500Signature ==
    /\ detected = "vendor_7500"
    /\ Range(sheet_names) = {SampleSetup, MulticomponentData, Results}

\* C8: detection resolves in fixed priority (7500 signature, then vendor-A
\* marker, then default), the result is one of the three tags, and it depends
\* only on the set of sheet names, not on their order.
ThmDetectPriority ==
    Returned =>
        LET S == Range(sheet_names)
        IN  /\ detected \in {"vendor_7500", "vendor_a", "default"}
            /\ (Sig7500(S) /\ SigVendorA(S) => detected = "vendor_7500")
            /\ (~Sig7500(S) => (detected = "vendor_a" <=> SigVendorA(S)))
            /\ (~Sig7500(S) /\ ~SigVendorA(S) => detected = "default")
            /\ \A other \in SeqsUpTo(S, Len(sheet_names)) :
                   Range(other) = S => DetectFromNames(other) = detected

WitDetectPriority ==
    /\ detected = "vendor_7500"
    /\ Sig7500(Range(sheet_names))
    /\ SigVendorA(Range(sheet_names))

Readable(f) == IF f.ext = ".xls" THEN f.xlrd_ok \/ f.openpyxl_ok ELSE f.openpyxl_ok

\* C9: detect_vendor never raises; a file whose workbook cannot be read, of
\* either extension, resolves to the generic tag.
CexDetectNeverRaises ==
    /\ detected # "raised"
    /\ (detected # "pending" /\ ~Readable(file) => detected = "default")

(***************************************************************************)
(* Claims about queries                                                    *)
(***************************************************************************)
Structural == {"Well", "Cycle", "Channel", "Value", "Amplification", "RawValue"}

OtherOf(ch) == IF ch = "HEX" THEN "VIC" ELSE "HEX"

NonEmptyUnder(d, k) == k \in DOMAIN d /\ d[k] # <<>>

\* the values an amplification query returns for stored values vals of well w
ExpectedValues(w, vals) ==
    LET n == IF w.cycles = <<>> THEN Min(DefaultAmpCycles, Len(vals))
             ELSE Min(Len(w.cycles), Len(vals))
    IN  SubSeq(vals, 1, n)

AmpQueryOn(ch) ==
    /\ query.kind \in {"to_dataframe", "get_amplification_data"}
    /\ query.channel_names = <<ch>>

RowsOfWell(w) == SelectSeq(rows, LAMBDA r : r.Well = w)

\* C3: an amplification query for HEX (VIC) on a well without non-empty data
\* under that key but with data under VIC (HEX) returns the other key's
\* values, every row labelled with the requested name; with non-empty data
\* under the requested key those values are returned.
ThmHexVicSubstitution ==
    \A ch \in {"HEX", "VIC"} :
        AmpQueryOn(ch) =>
            LET w == model.wells["A1"]
                got == RowsOfWell("A1")
                values == [i \in 1..Len(got) |-> got[i].Value]
            IN  /\ \A i \in 1..Len(got) : got[i].Channel = ch
                /\ NonEmptyUnder(w.channels, ch)
                      => values = ExpectedValues(w, w.channels[ch])
                /\ ~NonEmptyUnder(w.channels, ch) /\ NonEmptyUnder(w.channels, OtherOf(ch))
                      => values = ExpectedValues(w, w.channels[OtherOf(ch)])

WitHexVicSubstitution ==
    /\ AmpQueryOn("HEX")
    /\ ~NonEmptyUnder(model.wells["A1"].channels, "HEX")
    /\ NonEmptyUnder(model.wells["A1"].channels, "VIC")
    /\ \E i \in 1..Len(rows) :
          rows[i].Well = "A1" /\ rows[i].Channel = "HEX"
             /\ rows[i].Value = model.wells["A1"].channels["VIC"][1]

\* C5: get_all_channels() returns no structural token, whatever keys the
\* wells' channels and raw_channels maps hold.
CexAllChannelsNoStructural ==
    query.kind = "get_all_channels" => Range(rows) \cap Structural = {}

(***************************************************************************)
(* Claims about conversion                                                 *)
(***************************************************************************)
Zeros(n) == [i \in 1..n |-> Num(0)]

\* C10: when a group's value count differs from the well's established
\* cycle count n, the stored sequence has exactly n values: the first n
\* values of a longer group, or all values of a shorter group followed by
\* 0.0 up to length n.
ThmLengthRepair ==
    [][ (pc.at \in {"amp", "raw"} /\ pc' # pc) =>
          LET table == IF pc.at = "amp" THEN parsed_data.amplification_data
                       ELSE parsed_data.raw_data
              column == IF pc.at = "amp" THEN "Amplification" ELSE "RawValue"
              key == GroupKeys(table)[pc.i]
              group == GroupRows(table, key)
              k == Len(group)
          IN  ( /\ key[2] \notin ConvertRejected
                /\ key[1] \in DOMAIN model.wells
                /\ model.wells[key[1]].cycles # <<>>
                /\ k # Len(model.wells[key[1]].cycles) )
              => LET n == Len(model.wells[key[1]].cycles)
                     stored == IF pc.at = "amp"
                               THEN model'.wells[key[1]].channels[key[2]]
                               ELSE model'.wells[key[1]].raw_channels[key[2]]
                 IN  /\ Len(stored) = n
                     /\ \E g \in SortsByCycle(group) :
                          stored = IF k > n
                                   THEN SubSeq(Column(g, column), 1, n)
                                   ELSE Column(g, column) \o Zeros(n - k) ]_vars

\* a stored sequence shorter than its group: the group was truncated
WitLengthRepair ==
    \E w \in DOMAIN model.wells :
        \E ch \in DOMAIN model.wells[w].channels :
            /\ Len(model.wells[w].cycles) >= 1
            /\ Len(GroupRows(parsed_data.amplification_data, <<w, ch>>))
                  > Len(model.wells[w].cycles)
            /\ Len(model.wells[w].channels[ch]) = Len(model.wells[w].cycles)

\* a stored sequence longer than its group: the group was zero-padded
WitLengthRepairPadded ==
    \E w \in DOMAIN model.wells :
        \E ch \in DOMAIN model.wells[w].channels :
            /\ Len(GroupRows(parsed_data.amplification_data, <<w, ch>>))
                  < Len(model.wells[w].channels[ch])
            /\ model.wells[w].channels[ch][Len(model.wells[w].channels[ch])] = Num(0)

\* the input value of cycle c of the group A1/FAM
RoundTripInput(c) ==
    LET t == parsed_data.amplification_data
        i == CHOOSE j \in 1..Len(t) :
                 t[j].Well = "A1" /\ t[j].Channel = "FAM" /\ t[j].Cycle = c
    IN  t[i].Amplification

\* C4: a table holding A1/FAM at cycles 1..N, one value per cycle in any
\* row order, converted and queried for (A1, FAM, amplification), returns
\* exactly N rows in ascending cycle order with the input value of each cycle.
ThmRoundTrip ==
    (pc.at = "done" /\ query.kind = "to_dataframe") =>
        LET n == Len(GroupRows(parsed_data.amplification_data, <<"A1", "FAM">>))
        IN  rows = [ i \in 1..n |->
                       [ Cycle |-> i, Well |-> "A1", Channel |-> "FAM",
                         Value |-> RoundTripInput(i) ] ]

\* three cycles given in descending row order, queried
WitRoundTrip ==
    /\ pc.at = "done"
    /\ query.kind = "to_dataframe"
    /\ Len(rows) = 3
    /\ LET g == GroupRows(parsed_data.amplification_data, <<"A1", "FAM">>)
       IN  Len(g) = 3 /\ g[1].Cycle = 3 /\ g[3].Cycle = 1
              /\ g[1].Amplification # g[3].Amplification

WellsOf(m) == DOMAIN m.wells

\* C1: after convert() with any vendor tag, every channel of every well
\* holds as many values as the well has cycles.
CexChannelLengths ==
    pc.at = "done" =>
        \A w \in WellsOf(model) :
            \A ch \in DOMAIN model.wells[w].channels :
                Len(model.wells[w].channels[ch]) = Len(model.wells[w].cycles)

\* C6: after convert() with any vendor tag, no well's channels or
\* raw_channels map has a structural name as key.
CexNoStructuralKeys ==
    pc.at = "done" =>
        \A w \in WellsOf(model) :
            /\ DOMAIN model.wells[w].channels \cap Structural = {}
            /\ DOMAIN model.wells[w].raw_channels \cap Structural = {}

\* C2: every stored Ct satisfies 0 < ct <= 42; a sentinel token or an
\* out-of-range number in the vendor Ct cell leaves the channel absent from
\* ct_values.
CexCtInRange ==
    \A w \in WellsOf(model) :
        \A ch \in DOMAIN model.wells[w].ct_values :
            0 < model.wells[w].ct_values[ch] /\ model.wells[w].ct_values[ch] <= 42

(***************************************************************************)
(* The vendor-A path on raw rows                                           *)
(***************************************************************************)
\* the value cycle position k of the raw block of a data row stands for
RawCellValue(row, k) ==
    LET cell == CellAt(row, RawStartCol + k - 1)
    IN  IF NotNa(cell) /\ ParseFloat(cell).ok THEN Num(ParseFloat(cell).n) ELSE Num(0)

\* C11: a 42-cycle raw row scanned and converted by the vendor-A path is
\* stored with length 42, a missing or unparsable cell at cycle position k
\* as 0.0 at index k-1 and every other value at the index of its own cycle.
CexRawGapZero ==
    (pc.at = "done" /\ grid \in RawSheets) =>
        /\ "A1" \in DOMAIN model.wells
        /\ "FAM" \in DOMAIN model.wells["A1"].raw_channels
        /\ Len(model.wells["A1"].raw_channels["FAM"]) = RawEndCol - RawStartCol
        /\ \A k \in 1..(RawEndCol - RawStartCol) :
              model.wells["A1"].raw_channels["FAM"][k] = RawCellValue(grid.rows[2], k)

\* C12: after convert, whatever the vendor tag and the table (repeated
\* (well, channel, cycle) rows included), every well's cycles list is strictly
\* increasing and made of positive integers.
CexCyclesIncreasing ==
    pc.at = "done" =>
        \A w \in WellsOf(model) :
            LET cycles == model.wells[w].cycles
            IN  /\ \A i \in 1..Len(cycles) : cycles[i] > 0
                /\ \A i \in 1..(Len(cycles) - 1) : cycles[i] < cycles[i + 1]

\* C13: a raw query (get_raw_data) returns only values taken from the wells'
\* raw-signal maps, the HEX/VIC substitution staying within the raw map: a
\* (well, channel) with processed data but no raw data gives no row.
CexRawQueryOnlyRaw ==
    query.kind = "get_raw_data" =>
        \A i \in 1..Len(rows) :
            LET raw == model.wells[rows[i].Well].raw_channels
                ch == rows[i].Channel
                from == IF ch \in DOMAIN raw THEN {ch}
                        ELSE IF ch \in {"HEX", "VIC"} THEN {OtherOf(ch)} \cap DOMAIN raw
                        ELSE {}
            IN  \E k \in from : rows[i].RawValue \in Range(raw[k])

(***************************************************************************)
(* Claims about the scanners                                               *)
(***************************************************************************)
\* the sheet holds a row with the vendor-A header marker
HasMarkerRow(sheet) ==
    \E i \in 1..Len(sheet.rows) : RowHasText(sheet.rows[i], HeaderMarkerTexts)

\* the sheet is there and holds a header row: a row whose text has both
\* needles and a cell for each of the names
Anchored(sheet, S1, S2, names) ==
    /\ sheet # AbsentSheet
    /\ \E i \in 1..Len(sheet.rows) :
          /\ RowHasText(sheet.rows[i], S1) /\ RowHasText(sheet.rows[i], S2)
          /\ \A n \in names : \E c \in DOMAIN sheet.rows[i] : ToText(sheet.rows[i][c]) = n

CexCycleAlignment ==
    (pc.at = "done" /\ vendor_type \in {"vendor_a", "vendor_7500"}) =>
        \A w \in WellsOf(model) :
            \A ch \in DOMAIN model.wells[w].channels :
                LET well == model.wells[w]
                    values == well.channels[ch]
                    RowsAt(cycle) ==
                        { i \in 1..Len(parsed_data.amplification_data) :
                            /\ parsed_data.amplification_data[i].Well = w
                            /\ parsed_data.amplification_data[i].Channel = ch
                            /\ parsed_data.amplification_data[i].Cycle = cycle }
                IN  \A i \in 1..Min(Len(values), Len(well.cycles)) :
                        IF RowsAt(well.cycles[i]) = {} THEN values[i] = Num(0)
                        ELSE \E k \in RowsAt(well.cycles[i]) :
                                values[i] = parsed_data.amplification_data[k].Amplification

\* C16: Ct and sample name are attached first-writer-wins: once a well's
\* sample name, or a channel's Ct, is set while one group is processed, no
\* later group of the same convert() changes it.
CexFirstWriterWins ==
    [][ \A w \in DOMAIN model.wells :
          /\ w \in DOMAIN model'.wells
          /\ "sample_name" \in DOMAIN model.wells[w].metadata
                => /\ "sample_name" \in DOMAIN model'.wells[w].metadata
                   /\ model'.wells[w].metadata["sample_name"]
                         = model.wells[w].metadata["sample_name"]
          /\ \A ch \in DOMAIN model.wells[w].ct_values :
                /\ ch \in DOMAIN model'.wells[w].ct_values
                /\ model'.wells[w].ct_values[ch] = model.wells[w].ct_values[ch] ]_vars

\* C17: raw groups are repaired like processed ones: after convert() of a
\* vendor-A or 7500 table every raw series of a well is as long as the well's
\* cycle list, also for the first raw group of a well that had no cycle list.
CexRawLengths ==
    (pc.at = "done" /\ vendor_type \in {"vendor_a", "vendor_7500"})
       => \A w \in DOMAIN model.wells :
             \A ch \in DOMAIN model.wells[w].raw_channels :
                Len(model.wells[w].raw_channels[ch]) = Len(model.wells[w].cycles)

\* C18: value coercion in convert(): every element of every stored processed
\* or raw series is a number; a missing or unparsable value is stored as 0.0
\* at its position.
CexStoredValuesAreNumbers ==
    pc.at = "done"
       => \A w \in DOMAIN model.wells :
             /\ \A ch \in DOMAIN model.wells[w].channels :
                   \A i \in 1..Len(model.wells[w].channels[ch]) :
                      model.wells[w].channels[ch][i].t = "num"
             /\ \A ch \in DOMAIN model.wells[w].raw_channels :
                   \A i \in 1..Len(model.wells[w].raw_channels[ch]) :
                      model.wells[w].raw_channels[ch][i].t = "num"

(***************************************************************************)
(* Claims about the well identifiers the scanners emit                     *)
(***************************************************************************)
\* the identifiers of the plate pattern, [A-H][0-9]{1,2}, with the lower-case
\* spelling of each
LowerLetter ==
    ("A" :> "a") @@ ("B" :> "b") @@ ("C" :> "c") @@ ("D" :> "d")
       @@ ("E" :> "e") @@ ("F" :> "f") @@ ("G" :> "g") @@ ("H" :> "h")
DigitTexts ==
    {ToString(n) : n \in 0..99} \cup {"0" \o ToString(n) : n \in 0..9}
PlateForms ==
    { [up |-> L \o d, low |-> LowerLetter[L] \o d] : L \in DOMAIN LowerLetter, d \in DigitTexts }

\* the texts of the cells of a sheet, and of the workbook that was scanned
SheetTexts(sheet) ==
    UNION { {sheet.rows[i][c].s : c \in {d \in DOMAIN sheet.rows[i] : sheet.rows[i][d].t = "str"}}
            : i \in 1..Len(sheet.rows) }
GridTexts ==
    IF vendor_type = "vendor_a" THEN SheetTexts(grid)
    ELSE UNION {SheetTexts(grid[k]) : k \in DOMAIN grid}

\* the well identifiers in the scanner's output: rows and auxiliary well map
EmittedWells ==
    {parsed_data.amplification_data[i].Well : i \in 1..Len(parsed_data.amplification_data)}
       \cup {parsed_data.raw_data[i].Well : i \in 1..Len(parsed_data.raw_data)}
       \cup DOMAIN parsed_data.well_data
       \cup {parsed_data.well_data[w].well.s :
               w \in {x \in DOMAIN parsed_data.well_data :
                        "well" \in DOMAIN parsed_data.well_data[x]}}

\* C19: every well identifier the vendor-A and 7500 scanners emit, in rows
\* and in the auxiliary well map, is the upper-case spelling of a plate
\* identifier (row letter A-H, one or two digits) that a cell of the grid
\* spells; a row whose well cell does not match emits nothing.
ThmEmittedWellsValid ==
    (pc.at # "scan" /\ vendor_type \in {"vendor_a", "vendor_7500"})
       => \A W \in EmittedWells :
             \E f \in PlateForms : f.up = W /\ {f.up, f.low} \cap GridTexts # {}

\* a 7500 workbook spelling a well in lower case next to a cell that is no
\* plate identifier, scanned: the well is emitted in upper case, alone
WitEmittedWellsValid ==
    /\ pc.at # "scan"
    /\ vendor_type = "vendor_7500"
    /\ "a1" \in GridTexts /\ "Z9" \in GridTexts /\ "A1" \notin GridTexts
    /\ EmittedWells = {"A1"}

(***************************************************************************)
(* Claims about the channel names the 7500 scanner emits                   *)
(***************************************************************************)
\* the keys of a well's entry in the auxiliary map that are not channel names
WellInfoKeys == {"channels", "sample_name", "well", "ct"}

\* the channel names in the scanner's output: curve rows, raw rows, the keys
\* of the Ct map and the declared-channel lists
EmittedChannels ==
    {parsed_data.amplification_data[i].Channel : i \in 1..Len(parsed_data.amplification_data)}
       \cup {parsed_data.raw_data[i].Channel : i \in 1..Len(parsed_data.raw_data)}
       \cup UNION { (DOMAIN parsed_data.well_data[w]) \ WellInfoKeys
                    : w \in DOMAIN parsed_data.well_data }
       \cup UNION { Range(parsed_data.well_data[w].channels)
                    : w \in {x \in DOMAIN parsed_data.well_data :
                               "channels" \in DOMAIN parsed_data.well_data[x]} }

\* C20: in every output of the 7500 scanner (curve rows, raw rows, Ct map,
\* declared-channel list) a target named JOE is emitted as VIC and a target
\* named HEX as HEX: no output names JOE, and an output names VIC only when
\* the workbook spells JOE or VIC.
CexHexNeverFolded ==
    (pc.at # "scan" /\ vendor_type = "vendor_7500")
       => /\ "JOE" \notin EmittedChannels
          /\ "VIC" \in EmittedChannels => {"JOE", "VIC"} \cap GridTexts # {}

(***************************************************************************)
(* Claims about the columns the 7500 scanner reads                         *)
(***************************************************************************)
\* the sheet with its columns a and b exchanged, headers and data alike
SwapColumns(sheet, a, b) ==
    LET To(c) == IF c = a THEN b ELSE IF c = b THEN a ELSE c
    IN  [ width |-> sheet.width,
          rows |-> [ i \in 1..Len(sheet.rows) |->
                       [ c \in {To(d) : d \in DOMAIN sheet.rows[i]} |-> sheet.rows[i][To(c)] ] ] ]

\* C21: on the curve sheets of a 7500 workbook the Well, Cycle, Target Name,
\* Rn and delta-Rn columns are located by header text: exchanging two columns
\* of a curve sheet, headers included, leaves the extracted amplification and
\* raw tables unchanged.
CexCurveColumnsByHeader ==
    (pc.at # "scan" /\ vendor_type = "vendor_7500")
       => /\ grid.multi # AbsentSheet
               => \A a, b \in 0..(grid.multi.width - 1) :
                     /\ ExtractAmplificationDataFromMulticomponent(SwapColumns(grid.multi, a, b))
                           = ExtractAmplificationDataFromMulticomponent(grid.multi)
                     /\ ExtractRawDataFromMulticomponent(SwapColumns(grid.multi, a, b))
                           = ExtractRawDataFromMulticomponent(grid.multi)
          /\ grid.amp # AbsentSheet
               => \A a, b \in 0..(grid.amp.width - 1) :
                     ExtractAmplificationData7500(SwapColumns(grid.amp, a, b))
                        = ExtractAmplificationData7500(grid.amp)

\* a Raw Data sheet with a Well/Cycle header and, below it, a row holding a
\* plate well and a cycle number
HasValidRawRow(sheet) ==
    LET h == HeaderRow7500(sheet, TextsWithWell, TextsWithCycle)
    IN  /\ h # 0
        /\ ColNamed(sheet.rows[h], "Well") >= 0 /\ ColNamed(sheet.rows[h], "Cycle") >= 0
        /\ \E i \in (h + 1)..Len(sheet.rows) :
              /\ RowWell7500(sheet, sheet.rows[i], ColNamed(sheet.rows[h], "Well")) # ""
              /\ RowCycle7500(sheet, sheet.rows[i], ColNamed(sheet.rows[h], "Cycle")) > 0

\* C22: sheet precedence of the 7500 parse(): curves come from Multicomponent
\* Data when it yields rows and from Amplification Data only otherwise; raw
\* signal comes from Multicomponent Data when it yields raw rows and from the
\* Raw Data sheet otherwise, so a workbook whose only raw source is a Raw Data
\* sheet with valid well/cycle rows has a non-empty raw table.
CexSheetPrecedence ==
    (pc.at # "scan" /\ vendor_type = "vendor_7500")
       => LET amp_multi == IF grid.multi # AbsentSheet
                           THEN ExtractAmplificationDataFromMulticomponent(grid.multi) ELSE <<>>
              raw_multi == IF grid.multi # AbsentSheet
                           THEN ExtractRawDataFromMulticomponent(grid.multi) ELSE <<>>
          IN  /\ amp_multi # <<>> => parsed_data.amplification_data = amp_multi
              /\ (amp_multi = <<>> /\ grid.amp # AbsentSheet)
                    => parsed_data.amplification_data = ExtractAmplificationData7500(grid.amp)
              /\ raw_multi # <<>> => parsed_data.raw_data = raw_multi
              /\ (raw_multi = <<>> /\ grid.raw # AbsentSheet /\ HasValidRawRow(grid.raw))
                    => parsed_data.raw_data # <<>>

(***************************************************************************)
(* Claims about the cycle blocks of the vendor-A scanner                   *)
(***************************************************************************)
\* a cell the processed block accepts: a number in (-100, 10000)
AmpAccepted(cell) ==
    /\ NotNa(cell) /\ ParseFloat(cell).ok
    /\ ValueFloor < ParseFloat(cell).n /\ ParseFloat(cell).n < AmpValueLimit

\* C23: the vendor-A scanner tolerates drift of the processed block: when
\* the first cycle column is found by the search window at an index other
\* than 39, the value extracted as cycle 1 of a row is the cell at the
\* discovered start column.
CexDriftStart ==
    (pc.at # "scan" /\ vendor_type = "vendor_a" /\ HeaderRowOf(grid) # 0)
       => LET h == HeaderRowOf(grid)
              d == DataStartColOf(grid, h)
              amp == parsed_data.amplification_data
          IN  d # AmpStartCol
                 => \A i \in (h + 1)..Len(grid.rows) :
                       (RowWell(grid.rows[i]) # "" /\ AmpAccepted(CellAt(grid.rows[i], d)))
                          => \E k \in 1..Len(amp) :
                                /\ amp[k].Well = RowWell(grid.rows[i])
                                /\ amp[k].Channel = RowChannel(grid, grid.rows[i])
                                /\ amp[k].Cycle = 1
                                /\ amp[k].Amplification
                                      = Num(ParseFloat(CellAt(grid.rows[i], d)).n)

(***************************************************************************)
(* Claims about the frame of convert()                                     *)
(***************************************************************************)
\* C24: wells are mutated additively during convert(): processing the group
\* of a (well, channel) never removes a well, changes no other well, leaves
\* the stored sequences of every other channel of the well unchanged, and a
\* group of the raw table changes no processed sequence (nor a group of the
\* processed table a raw one).
ThmAdditive ==
    [][ (pc.at \in {"amp", "raw"} /\ pc' # pc) =>
          LET table == IF pc.at = "amp" THEN parsed_data.amplification_data
                       ELSE parsed_data.raw_data
              key == GroupKeys(table)[pc.i]
          IN  \A w \in DOMAIN model.wells :
                 /\ w \in DOMAIN model'.wells
                 /\ model'.wells[w].well_name = model.wells[w].well_name
                 /\ w # key[1] => model'.wells[w] = model.wells[w]
                 /\ \A ch \in DOMAIN model.wells[w].channels :
                       (ch # key[2] \/ pc.at = "raw")
                          => /\ ch \in DOMAIN model'.wells[w].channels
                             /\ model'.wells[w].channels[ch] = model.wells[w].channels[ch]
                 /\ \A ch \in DOMAIN model.wells[w].raw_channels :
                       (ch # key[2] \/ pc.at = "amp")
                          => /\ ch \in DOMAIN model'.wells[w].raw_channels
                             /\ model'.wells[w].raw_channels[ch]
                                   = model.wells[w].raw_channels[ch] ]_vars

\* a converted model with two wells, one of them holding a processed and a
\* raw series: a raw group was processed on a well that had processed data,
\* next to another well
WitAdditive ==
    /\ pc.at = "done"
    /\ \E w, v \in DOMAIN model.wells :
          /\ w # v
          /\ DOMAIN model.wells[w].channels # {}
          /\ DOMAIN model.wells[w].raw_channels # {}

(***************************************************************************)
(* Claims about open_file                                                  *)
(***************************************************************************)
\* C25: for each file chosen in open_file the UI runs vendor detection,
\* scanning and conversion exactly once each (no stage twice, and each once
\* when the file was converted), and in every state after open_file returned,
\* whether parsing succeeded or failed, data_model, parsed_data,
\* well_data_map, the selected wells and the plate's per-well data hold
\* nothing derived from a previously opened file.
CexOpenOnce ==
    ui.current_file # 0
       => /\ ui.calls.detect <= 1 /\ ui.calls.scan <= 1 /\ ui.calls.convert <= 1
          /\ ui.data_model # 0
                => ui.calls = [detect |-> 1, scan |-> 1, convert |-> 1]
          /\ ui.parsed_data \in {0, ui.current_file}
          /\ ui.data_model \in {0, ui.current_file}
          /\ \A w \in DOMAIN ui.well_data_map : ui.well_data_map[w] = ui.current_file
          /\ \A w \in DOMAIN ui.selected_wells : ui.selected_wells[w] = ui.current_file
          /\ \A w \in DOMAIN ui.plate_well_data : ui.plate_well_data[w] = ui.current_file

\* a cell the raw block accepts: a number in (-100, 100000)
RawAccepted(cell) ==
    /\ NotNa(cell) /\ ParseFloat(cell).ok
    /\ ValueFloor < ParseFloat(cell).n /\ ParseFloat(cell).n < RawValueLimit

\* C26: in the vendor-A scanner, for the processed block and for the raw
\* block, the Cycle of every emitted row is the column offset of its cell
\* from the block start plus 1, whatever the other cells of the row hold:
\* the row's value is the accepted cell at column start + Cycle - 1 of a
\* data row of its well and channel.
CexCycleIsOffset ==
    (pc.at # "scan" /\ vendor_type = "vendor_a")
       => LET h == HeaderRowOf(grid)
              amp == parsed_data.amplification_data
              raw == parsed_data.raw_data
          IN  /\ \A k \in 1..Len(amp) :
                    \E i \in (h + 1)..Len(grid.rows) :
                       LET cell == CellAt(grid.rows[i], AmpStartCol + amp[k].Cycle - 1)
                       IN  /\ RowWell(grid.rows[i]) = amp[k].Well
                           /\ RowChannel(grid, grid.rows[i]) = amp[k].Channel
                           /\ AmpStartCol + amp[k].Cycle - 1 < AmpEndCol
                           /\ AmpAccepted(cell)
                           /\ Num(ParseFloat(cell).n) = amp[k].Amplification
              /\ \A k \in 1..Len(raw) :
                    \E i \in (h + 1)..Len(grid.rows) :
                       LET cell == CellAt(grid.rows[i], RawStartCol + raw[k].Cycle - 1)
                       IN  /\ RowWell(grid.rows[i]) = raw[k].Well
                           /\ RowChannel(grid, grid.rows[i]) = raw[k].Channel
                           /\ RawStartCol + raw[k].Cycle - 1 < RawEndCol
                           /\ RawAccepted(cell)
                           /\ Num(ParseFloat(cell).n) = raw[k].RawValue

\* C27: in the vendor-A path a data row whose Ct cell holds a number in
\* (0, 42] and that contributes at least one processed value to the table
\* has that Ct stored for its (well, channel), also when the cell of cycle 1
\* is missing or rejected.
CexCtOfContributingRow ==
    (pc.at = "done" /\ vendor_type = "vendor_a")
       => \A i \in (HeaderRowOf(grid) + 1)..Len(grid.rows) :
             LET row == grid.rows[i]
                 ct == RowCt(grid, row)
             IN  ( /\ HeaderRowOf(grid) # 0
                   /\ RowWell(row) # ""
                   /\ ct # NaN /\ 0 < ct.n /\ ct.n <= CtLimit
                   /\ \E c \in AmpStartCol..(Min(AmpEndCol, grid.width) - 1) :
                         AmpAccepted(CellAt(row, c)) )
                 => /\ RowWell(row) \in DOMAIN model.wells
                    /\ RowChannel(grid, row) \in DOMAIN model.wells[RowWell(row)].ct_values
                    /\ model.wells[RowWell(row)].ct_values[RowChannel(grid, row)] = ct.n

(***************************************************************************)
(* Claims about the 7500 path end to end                                   *)
(***************************************************************************)
\* C28: in the 7500 path end to end, every (well, target) with an in-range
\* Ct call on the Results sheet and curve rows on the curve sheet has that
\* Ct in the well's ct_values under the channel key that holds its curve in
\* the well's channels (the target's name, VIC for JOE), HEX included.
CexCtUnderCurveKey ==
    (pc.at = "done" /\ vendor_type = "vendor_7500" /\ grid.results # AbsentSheet)
       => LET sheet == grid.results
              h == HeaderRow7500(sheet, TextsWithWell, TextsWithTarget)
              well_col == ColNamed(sheet.rows[h], "Well")
              target_col == ColNamed(sheet.rows[h], "Target Name")
          IN  (h # 0 /\ well_col >= 0 /\ target_col >= 0)
                 => \A i \in (h + 1)..Len(sheet.rows) :
                       LET row == sheet.rows[i]
                           W == RowWell7500(sheet, row, well_col)
                           T == RowTarget7500(sheet, row, target_col)
                           ct == RowValue7500(sheet, row, CtCol7500)
                       IN  ( /\ W \in DOMAIN model.wells
                             /\ NotNa(CellAt(row, target_col))
                             /\ ct # NaN /\ 0 < ct.n /\ ct.n <= CtLimit )
                           => \A k \in DOMAIN model.wells[W].channels :
                                 (k = T \/ (T = "JOE" /\ k = "VIC"))
                                    => /\ k \in DOMAIN model.wells[W].ct_values
                                       /\ model.wells[W].ct_values[k] = ct.n

(***************************************************************************)
(* Claims about the queries                                                *)
(***************************************************************************)
RowQueryKinds == {"to_dataframe", "get_amplification_data", "get_raw_data"}

\* the signal of a returned row
SignalOf(r) == IF "Value" \in DOMAIN r THEN r.Value ELSE r.RawValue

\* the sequences a well stores, processed and raw
StoredSeqs(well) ==
    {well.channels[ch] : ch \in DOMAIN well.channels}
       \cup {well.raw_channels[ch] : ch \in DOMAIN well.raw_channels}

\* C29: for any model, the rows an amplification or raw query returns for a
\* (well, channel) pair cycles[i] with values[i] of the same index, are
\* min(len(cycles), len(values)) in number, and carry only cycles of the
\* well's stored cycle list: none is invented for a well without cycles.
CexQueryPairsCycles ==
    (query # NoQuery /\ query.kind \in RowQueryKinds)
       => \A k \in 1..Len(rows) :
             LET w == rows[k].Well
                 ch == rows[k].Channel
                 R == SelectSeq(rows, LAMBDA r : r.Well = w /\ r.Channel = ch)
             IN  /\ w \in DOMAIN model.wells
                 /\ \E i \in 1..Len(model.wells[w].cycles) :
                       rows[k].Cycle = model.wells[w].cycles[i]
                 /\ \E seq \in StoredSeqs(model.wells[w]) :
                       /\ Len(R) = Min(Len(model.wells[w].cycles), Len(seq))
                       /\ \A i \in 1..Len(R) :
                             /\ R[i].Cycle = model.wells[w].cycles[i]
                             /\ SignalOf(R[i]) = seq[i]

\* C30: queries are read-only and storage keeps HEX and VIC distinct:
\* get_well, get_all_channels, get_wells_by_channels, to_dataframe,
\* get_amplification_data and get_raw_data leave the wells of the model and
\* every well's cycles, channels, raw_channels, ct_values and metadata
\* unchanged, also when the query applied the HEX/VIC substitution: no key is
\* added or renamed.
ThmQueriesReadOnly ==
    [][ (pc.at = "query" /\ query' # NoQuery)
          => /\ DOMAIN model'.wells = DOMAIN model.wells
             /\ \A w \in DOMAIN model.wells :
                   /\ model'.wells[w].cycles = model.wells[w].cycles
                   /\ DOMAIN model'.wells[w].channels = DOMAIN model.wells[w].channels
                   /\ model'.wells[w].channels = model.wells[w].channels
                   /\ DOMAIN model'.wells[w].raw_channels = DOMAIN model.wells[w].raw_channels
                   /\ model'.wells[w].raw_channels = model.wells[w].raw_channels
                   /\ model'.wells[w].ct_values = model.wells[w].ct_values
                   /\ model'.wells[w].metadata = model.wells[w].metadata ]_vars

\* to_dataframe asked for HEX has served a well that stores VIC and no HEX:
\* the rows carry the label HEX and the well still holds no HEX key
WitQueriesReadOnly ==
    /\ query # NoQuery /\ query.kind = "to_dataframe"
    /\ query.channel_names = <<"HEX">>
    /\ rows # <<>> /\ rows[1].Well = "A1" /\ rows[1].Channel = "HEX"
    /\ "VIC" \in DOMAIN model.wells["A1"].channels
    /\ "HEX" \notin DOMAIN model.wells["A1"].channels

====
